---- MODULE Spec2Model ----
(***************************************************************************)
(* Model of provide-go's Ethereum JSON-RPC toolkit (src/ethereum.go):      *)
(* the per-network client caches with their mutex, the dial / resolve /    *)
(* invalidate operations, and the sign / broadcast pipeline.               *)
(*                                                                         *)
(* Every goroutine calling into the package is a process of Procs.  A      *)
(* process executes one exported function at a time; the function is cut   *)
(* into steps at every access of the shared maps, every mutex operation    *)
(* and every network request, so that the interleavings the Go scheduler   *)
(* can produce are the interleavings of the steps.                         *)
(***************************************************************************)
EXTENDS Integers, Sequences, FiniteSets, TLC

\* ------------------------------------------------------------------ bounds
MaxCalls == 3                    \* calls into the pool started in one behaviour
MaxTxCalls == 2                  \* sign / broadcast calls started in one behaviour
MaxNetCalls == 2                 \* chain-introspection calls started in one behaviour
MaxInputs == 2                   \* inputs a method declares
MaxParams == 3                   \* params handed to EncodeABI
MaxABICalls == 1                 \* EncodeABI calls started in one behaviour
MaxCodecCalls == 1               \* integer round trips started in one behaviour
MaxKeyCalls == 2                 \* keystore exports and decryptions in one behaviour
MaxCfgCalls == 4                 \* chain-configuration calls started in one behaviour
MaxWords == 2                    \* 32-byte words of an output buffer
MaxUnpackCalls == 1              \* offset resolutions started in one behaviour

Procs == {"g1", "g2"}            \* concurrent callers (goroutines)
NetworkIDs == {"1", "3", "net-a"}   \* numeric network ids and a UUID-like one
PoolIDs == {"net-a"}                \* the id the concurrent callers of the pool contend for

NoProc == "none"
NilRpc == 0                      \* a nil *ethrpc.Client
NilEth == [c |-> 0]              \* a nil *ethclient.Client
Absent == 0 - 1                  \* a nil *uint64 or *big.Int

VARIABLES
    \* package-level state, src/ethereum.go:42-46
    chainConfigs,          \* network id -> BOOLEAN: an entry is present
    ethclientRpcClients,   \* network id -> sequence of *ethclient.Client
    ethrpcClients,         \* network id -> sequence of *ethrpc.Client
    mutex,                 \* the process holding the mutex, or NoProc
    \* the world outside the package
    closed,                \* rpc connections on which Close() was called
    dialed,                \* connections ethrpc.Dial has established so far
    \* one goroutine's position
    pc, stk, op, networkID, ret,
    \* locals of the functions on its stack
    networkClients,        \* DialJsonRpc: networkClients
    rpcClient,             \* DialJsonRpc: rpcClient
    client,                \* DialJsonRpc: client
    rpcNetworkClients,     \* ResolveJsonRpcClient: networkClients
    erpc,                  \* ResolveJsonRpcClient: erpc
    ethNetworkClients,     \* ResolveEthClient: networkClients
    \* history, read by the properties only
    calls,                 \* top-level calls started so far
    netlog,                \* requests the current top-level call has put on the network
    hit,                   \* the connection the cache held when the call looked it up
    inval,                 \* an invalidation of the call's network overlapped the call
    poisoned,              \* connections whose probe failure was reported to a caller
    avoid,                 \* poisoned, as it was when the current call began
    \* signing and broadcasting
    mainnetChainID,        \* ChainID of the shared *params.MainnetChainConfig object
    arg,                   \* arguments of the current top-level call
    loc,                   \* SignTx: client, gasPrice, gasLimit, err, tx
    txs,                   \* every *types.Transaction constructed so far
    returned               \* the transactions SignTx has returned to its callers

poolVars == <<chainConfigs, ethclientRpcClients, ethrpcClients, mutex, closed, dialed>>
ctlVars == <<pc, stk, op, networkID, ret>>
dialLocals == <<networkClients, rpcClient, client>>
resolveLocals == <<rpcNetworkClients, erpc>>
histVars == <<calls, netlog, hit, inval, poisoned, avoid>>
txVars == <<mainnetChainID, arg, loc, txs, returned>>
vars == <<poolVars, ctlVars, dialLocals, resolveLocals, ethNetworkClients, histVars, txVars>>

\* ---------------------------------------------------------------- helpers
\* ethclient.NewClient(c): the high-level client is a wrapper of the rpc
\* connection; closing the wrapper closes the connection.
NewClient(c) == [c |-> c]

Range(s) == {s[i] : i \in 1..Len(s)}

Ok(v) == [err |-> "nil", val |-> v]
Err(e) == [err |-> e, val |-> 0]
NoRet == [err |-> "nil", val |-> 0]

NoArg == [rpcURL |-> "url", to |-> "nil", gasLimit |-> 0, privateKey |-> "none", signedTx |-> 0,
          contractABI |-> "none", inputs |-> <<>>, params |-> <<>>,
          t |-> [T |-> "uint", Size |-> 8], v |-> [go |-> "uint8", neg |-> FALSE, mag |-> <<>>],
          coerce |-> FALSE,
          secret |-> "none", keyBytes |-> "none", record |-> 0, passphrase |-> "none",
          index |-> 0, output |-> [bytes |-> <<>>, len |-> 0]]
\* *ethereum.SyncProgress: nil when the node is synced
NoSync == [syncing |-> FALSE, CurrentBlock |-> 0, HighestBlock |-> 0]
NoLoc == [client |-> NilEth, blockNumber |-> 0,
          gasPrice |-> "nil", gasLimit |-> 0, err |-> "nil", tx |-> 0,
          syncProgress |-> NoSync, chainID |-> "nil", peers |-> 0, protocolVersion |-> "nil",
          balance |-> Absent,
          args |-> <<>>, word |-> <<>>,
          salt |-> 0, derivedKey |-> 0, iv |-> 0, cipherText |-> 0, mac |-> 0]

\* return r to the caller: the label on top of the stack, or the end of the
\* top-level call
Return(p, r) ==
    /\ ret' = [ret EXCEPT ![p] = r]
    /\ IF stk[p] = <<>>
       THEN /\ pc' = [pc EXCEPT ![p] = "done"]
            /\ stk' = stk
       ELSE /\ pc' = [pc EXCEPT ![p] = Head(stk[p])]
            /\ stk' = [stk EXCEPT ![p] = Tail(@)]

\* src/ethereum.go:660-667: the calls GetNetworkStatus makes after it has
\* deferred its recover() handler return to these places
Deferred == {"GetNetworkStatus_chainID", "GetNetworkStatus_peers",
             "GetNetworkStatus_version", "GetNetworkStatus_block"}

\* a Go panic unwinds the stack of the goroutine.  Under the deferred handler
\* of GetNetworkStatus (src/ethereum.go:643-648) it is recovered: the handler
\* calls clearCachedClients and GetNetworkStatus returns its zero results.
\* Otherwise it ends the call.
Recover(p) ==
    /\ ret' = [ret EXCEPT ![p] = NoRet]
    /\ pc' = [pc EXCEPT ![p] = "clearCachedClients"]
    /\ stk' = [stk EXCEPT ![p] = <<"GetNetworkStatus_recovered">>]

Panic(p) ==
    IF \E i \in 1..Len(stk[p]) : stk[p][i] \in Deferred
    THEN Recover(p)
    ELSE /\ ret' = [ret EXCEPT ![p] = Err("panic")]
         /\ pc' = [pc EXCEPT ![p] = "done"]
         /\ stk' = [stk EXCEPT ![p] = <<>>]

Call(p, target, back) ==
    /\ pc' = [pc EXCEPT ![p] = target]
    /\ stk' = [stk EXCEPT ![p] = <<back>> \o @]

Goto(p, target) ==
    /\ pc' = [pc EXCEPT ![p] = target]
    /\ stk' = stk

\* ------------------------------------------------- clearCachedClients
\* src/ethereum.go:49-50: mutex.Lock(); delete(chainConfigs, networkID)
clearCachedClients_lock(p) ==
    /\ pc[p] = "clearCachedClients"
    /\ mutex = NoProc
    /\ mutex' = p
    /\ chainConfigs' = [chainConfigs EXCEPT ![networkID[p]] = FALSE]
    /\ inval' = [q \in Procs |->
                    IF networkID[q] = networkID[p] /\ pc[q] \notin {"idle", "done"}
                    THEN TRUE ELSE inval[q]]
    /\ Goto(p, "clearCachedClients_close")
    /\ UNCHANGED <<ethclientRpcClients, ethrpcClients, closed, dialed, op, networkID, ret,
                   dialLocals, resolveLocals, ethNetworkClients, calls, netlog, hit,
                   poisoned, avoid>>
    /\ UNCHANGED txVars

\* src/ethereum.go:51-56: Close() on every cached low-level and high-level client
clearCachedClients_close(p) ==
    /\ pc[p] = "clearCachedClients_close"
    /\ closed' = closed \cup Range(ethrpcClients[networkID[p]])
                        \cup {h.c : h \in Range(ethclientRpcClients[networkID[p]])}
    /\ Goto(p, "clearCachedClients_reset")
    /\ UNCHANGED <<chainConfigs, ethclientRpcClients, ethrpcClients, mutex, dialed,
                   op, networkID, ret, dialLocals, resolveLocals, ethNetworkClients, histVars>>
    /\ UNCHANGED txVars

\* clearCachedClients without the reset of the high-level list (line 58 dropped)
clearCachedClients_reset_keepsEth(p) ==
    /\ pc[p] = "clearCachedClients_reset"
    /\ ethrpcClients' = [ethrpcClients EXCEPT ![networkID[p]] = <<>>]
    /\ mutex' = NoProc
    /\ Return(p, NoRet)
    /\ UNCHANGED <<chainConfigs, ethclientRpcClients, closed, dialed, op, networkID,
                   dialLocals, resolveLocals, ethNetworkClients, histVars>>
    /\ UNCHANGED txVars

\* clearCachedClients returning with the mutex still locked (line 59 dropped)
clearCachedClients_reset_noUnlock(p) ==
    /\ pc[p] = "clearCachedClients_reset"
    /\ ethrpcClients' = [ethrpcClients EXCEPT ![networkID[p]] = <<>>]
    /\ ethclientRpcClients' = [ethclientRpcClients EXCEPT ![networkID[p]] = <<>>]
    /\ Return(p, NoRet)
    /\ UNCHANGED <<chainConfigs, mutex, closed, dialed, op, networkID,
                   dialLocals, resolveLocals, ethNetworkClients, histVars>>
    /\ UNCHANGED txVars

\* src/ethereum.go:57-59: both lists reset to empty; mutex.Unlock()
clearCachedClients_reset(p) ==
    /\ pc[p] = "clearCachedClients_reset"
    /\ ethrpcClients' = [ethrpcClients EXCEPT ![networkID[p]] = <<>>]
    /\ ethclientRpcClients' = [ethclientRpcClients EXCEPT ![networkID[p]] = <<>>]
    /\ mutex' = NoProc
    /\ Return(p, NoRet)
    /\ UNCHANGED <<chainConfigs, closed, dialed, op, networkID,
                   dialLocals, resolveLocals, ethNetworkClients, histVars>>
    /\ UNCHANGED txVars

\* ----------------------------------------------- ResolveJsonRpcClient
\* src/ethereum.go:150: networkClients, _ := ethrpcClients[networkID] (no lock)
ResolveJsonRpcClient_lookup(p) ==
    /\ pc[p] = "ResolveJsonRpcClient"
    /\ rpcNetworkClients' = [rpcNetworkClients EXCEPT ![p] = ethrpcClients[networkID[p]]]
    /\ hit' = IF stk[p] = <<>>
              THEN [hit EXCEPT ![p] = IF ethrpcClients[networkID[p]] = <<>> THEN NilRpc
                                      ELSE Head(ethrpcClients[networkID[p]])]
              ELSE hit
    /\ IF Len(ethrpcClients[networkID[p]]) = 0
       THEN Goto(p, "ResolveJsonRpcClient_dial")
       ELSE Goto(p, "ResolveJsonRpcClient_cached")
    /\ UNCHANGED <<poolVars, op, networkID, ret, dialLocals, erpc, ethNetworkClients,
                   calls, netlog, inval, poisoned, avoid>>
    /\ UNCHANGED txVars

\* src/ethereum.go:151-156: ethrpc.Dial(rpcURL) succeeds with a new connection or
\* fails; it always fails for an empty URL
ResolveJsonRpcClient_dial(p) ==
    /\ pc[p] = "ResolveJsonRpcClient_dial"
    /\ netlog' = [netlog EXCEPT ![p] = @ \cup {"dial"}]
    /\ \E ok \in IF arg[p].rpcURL = "" THEN {FALSE} ELSE BOOLEAN :
        IF ok
        THEN /\ dialed' = dialed + 1
             /\ erpc' = [erpc EXCEPT ![p] = dialed + 1]
             /\ Goto(p, "ResolveJsonRpcClient_insert")
             /\ UNCHANGED <<ret, rpcNetworkClients>>
        ELSE /\ Return(p, Err("dial"))
             /\ rpcNetworkClients' = [rpcNetworkClients EXCEPT ![p] = <<>>]
             /\ UNCHANGED <<dialed, erpc>>
    /\ UNCHANGED <<chainConfigs, ethclientRpcClients, ethrpcClients, mutex, closed,
                   op, networkID, dialLocals, ethNetworkClients, calls, hit, inval,
                   poisoned, avoid>>
    /\ UNCHANGED txVars

\* src/ethereum.go:157-159,165: under the mutex, the list becomes the snapshot
\* taken at the lookup with the new client appended; the client is returned
ResolveJsonRpcClient_insert(p) ==
    /\ pc[p] = "ResolveJsonRpcClient_insert"
    /\ mutex = NoProc
    /\ ethrpcClients' = [ethrpcClients EXCEPT
                            ![networkID[p]] = Append(rpcNetworkClients[p], erpc[p])]
    /\ Return(p, Ok(erpc[p]))
    /\ rpcNetworkClients' = [rpcNetworkClients EXCEPT ![p] = <<>>]
    /\ erpc' = [erpc EXCEPT ![p] = NilRpc]
    /\ UNCHANGED <<chainConfigs, ethclientRpcClients, mutex, closed, dialed,
                   op, networkID, dialLocals, ethNetworkClients, histVars>>
    /\ UNCHANGED txVars

\* src/ethereum.go:162,165: client = ethrpcClients[networkID][0], a second
\* read of the map; indexing an emptied list panics
ResolveJsonRpcClient_cached(p) ==
    /\ pc[p] = "ResolveJsonRpcClient_cached"
    /\ IF Len(ethrpcClients[networkID[p]]) = 0
       THEN Panic(p)
       ELSE Return(p, Ok(ethrpcClients[networkID[p]][1]))
    /\ rpcNetworkClients' = [rpcNetworkClients EXCEPT ![p] = <<>>]
    /\ UNCHANGED <<poolVars, op, networkID, dialLocals, erpc, ethNetworkClients, histVars>>
    /\ UNCHANGED txVars

\* ------------------------------------------------------- GetSyncProgress
\* src/ethereum.go:760-773: the eth_syncing request succeeds or fails; over
\* HTTP Close() does nothing to the client, so it can succeed on a client
\* that clearCachedClients has closed
GetSyncProgress(c) == BOOLEAN

\* ---------------------------------------------------------- DialJsonRpc
\* src/ethereum.go:66-67: networkClients, _ := ethclientRpcClients[networkID] (no lock)
DialJsonRpc_lookup(p) ==
    /\ pc[p] = "DialJsonRpc"
    /\ networkClients' = [networkClients EXCEPT ![p] = ethclientRpcClients[networkID[p]]]
    /\ hit' = IF stk[p] = <<>>
              THEN [hit EXCEPT ![p] = IF ethclientRpcClients[networkID[p]] = <<>> THEN NilRpc
                                      ELSE Head(ethclientRpcClients[networkID[p]]).c]
              ELSE hit
    /\ IF Len(ethclientRpcClients[networkID[p]]) = 0
       THEN Call(p, "ResolveJsonRpcClient", "DialJsonRpc_insert")
       ELSE Goto(p, "DialJsonRpc_cached")
    /\ UNCHANGED <<poolVars, op, networkID, ret, rpcClient, client, resolveLocals,
                   ethNetworkClients, calls, netlog, inval, poisoned, avoid>>
    /\ UNCHANGED txVars

\* src/ethereum.go:68-76: a dial error is returned; otherwise the connection is
\* wrapped and, under the mutex, appended to the current low-level list while
\* the high-level list becomes the snapshot with the new client appended
DialJsonRpc_insert(p) ==
    /\ pc[p] = "DialJsonRpc_insert"
    /\ IF ret[p].err # "nil"
       THEN /\ Return(p, Err(ret[p].err))
            /\ networkClients' = [networkClients EXCEPT ![p] = <<>>]
            /\ UNCHANGED <<ethrpcClients, ethclientRpcClients, rpcClient, client>>
       ELSE /\ mutex = NoProc
            /\ ethrpcClients' = [ethrpcClients EXCEPT
                                    ![networkID[p]] = Append(@, ret[p].val)]
            /\ ethclientRpcClients' = [ethclientRpcClients EXCEPT
                                    ![networkID[p]] = Append(networkClients[p], NewClient(ret[p].val))]
            /\ rpcClient' = [rpcClient EXCEPT ![p] = ret[p].val]
            /\ client' = [client EXCEPT ![p] = NewClient(ret[p].val)]
            /\ networkClients' = [networkClients EXCEPT ![p] = <<>>]
            /\ ret' = [ret EXCEPT ![p] = NoRet]
            /\ Goto(p, "DialJsonRpc_probe")
    /\ UNCHANGED <<chainConfigs, mutex, closed, dialed, op, networkID,
                   resolveLocals, ethNetworkClients, histVars>>
    /\ UNCHANGED txVars

\* src/ethereum.go:79: client = ethclientRpcClients[networkID][0], a second
\* read of the map; indexing an emptied list panics
DialJsonRpc_cached(p) ==
    /\ pc[p] = "DialJsonRpc_cached"
    /\ IF Len(ethclientRpcClients[networkID[p]]) = 0
       THEN /\ Panic(p)
            /\ UNCHANGED client
       ELSE /\ client' = [client EXCEPT ![p] = ethclientRpcClients[networkID[p]][1]]
            /\ Goto(p, "DialJsonRpc_probe")
            /\ UNCHANGED ret
    /\ networkClients' = [networkClients EXCEPT ![p] = <<>>]
    /\ UNCHANGED <<poolVars, op, networkID, rpcClient, resolveLocals,
                   ethNetworkClients, histVars>>
    /\ UNCHANGED txVars

\* src/ethereum.go:82-89: the liveness probe; on failure clearCachedClients
\* runs before the error is returned
DialJsonRpc_probe(p) ==
    /\ pc[p] = "DialJsonRpc_probe"
    /\ \E ok \in GetSyncProgress(client[p].c) :
        IF ok
        THEN /\ Return(p, Ok(client[p]))
             /\ rpcClient' = [rpcClient EXCEPT ![p] = NilRpc]
             /\ client' = [client EXCEPT ![p] = NilEth]
        ELSE /\ Call(p, "clearCachedClients", "DialJsonRpc_failed")
             /\ UNCHANGED <<ret, rpcClient, client>>
    /\ netlog' = [netlog EXCEPT ![p] = @ \cup {"eth_syncing"}]
    /\ UNCHANGED <<poolVars, op, networkID, networkClients, resolveLocals,
                   ethNetworkClients, calls, hit, inval, poisoned, avoid>>
    /\ UNCHANGED txVars

\* src/ethereum.go:86: return nil, err
DialJsonRpc_failed(p) ==
    /\ pc[p] = "DialJsonRpc_failed"
    /\ Return(p, Err("probe"))
    /\ rpcClient' = [rpcClient EXCEPT ![p] = NilRpc]
    /\ client' = [client EXCEPT ![p] = NilEth]
    /\ poisoned' = poisoned \cup {client[p].c}
    /\ UNCHANGED <<poolVars, op, networkID, networkClients, resolveLocals,
                   ethNetworkClients, calls, netlog, hit, inval, avoid>>
    /\ UNCHANGED txVars

\* ----------------------------------------------------- ResolveEthClient
\* src/ethereum.go:129-131: var client; networkClients, _ := ethclientRpcClients[networkID]
ResolveEthClient_lookup(p) ==
    /\ pc[p] = "ResolveEthClient"
    /\ ethNetworkClients' = [ethNetworkClients EXCEPT ![p] = ethclientRpcClients[networkID[p]]]
    /\ IF Len(ethclientRpcClients[networkID[p]]) = 0
       THEN Call(p, "DialJsonRpc", "ResolveEthClient_insert")
       ELSE Goto(p, "ResolveEthClient_cached")
    /\ UNCHANGED <<poolVars, op, networkID, ret, dialLocals, resolveLocals, histVars>>
    /\ UNCHANGED txVars

\* src/ethereum.go:131-139,144: `client, err := DialJsonRpc(...)` declares a new
\* client inside the if block; the dialed client is appended to the snapshot
\* under the mutex and the outer client, still nil, is returned with a nil error
ResolveEthClient_insert(p) ==
    /\ pc[p] = "ResolveEthClient_insert"
    /\ IF ret[p].err # "nil"
       THEN /\ Return(p, Err(ret[p].err))
            /\ UNCHANGED ethclientRpcClients
       ELSE /\ mutex = NoProc
            /\ ethclientRpcClients' = [ethclientRpcClients EXCEPT
                                    ![networkID[p]] = Append(ethNetworkClients[p], ret[p].val)]
            /\ Return(p, Ok(NilEth))
    /\ ethNetworkClients' = [ethNetworkClients EXCEPT ![p] = <<>>]
    /\ UNCHANGED <<chainConfigs, ethrpcClients, mutex, closed, dialed, op, networkID,
                   dialLocals, resolveLocals, histVars>>
    /\ UNCHANGED txVars

\* src/ethereum.go:141,144: client = ethclientRpcClients[networkID][0]
ResolveEthClient_cached(p) ==
    /\ pc[p] = "ResolveEthClient_cached"
    /\ IF Len(ethclientRpcClients[networkID[p]]) = 0
       THEN Panic(p)
       ELSE Return(p, Ok(ethclientRpcClients[networkID[p]][1]))
    /\ ethNetworkClients' = [ethNetworkClients EXCEPT ![p] = <<>>]
    /\ UNCHANGED <<poolVars, op, networkID, dialLocals, resolveLocals, histVars>>
    /\ UNCHANGED txVars

\* ------------------------------------------------------- GetChainConfig
\* strconv.ParseUint(networkID, 10, 0)
ParseUint(n) ==
    CASE n = "1" -> [err |-> FALSE, val |-> 1]
      [] n = "3" -> [err |-> FALSE, val |-> 3]
      [] OTHER -> [err |-> TRUE, val |-> 0]

\* src/ethereum.go:508-519: a cached entry is returned; otherwise cfg is the
\* shared mainnet object, and when ParseUint FAILS its ChainID is overwritten
\* with the zero ParseUint returned and the object is cached.  Every value
\* returned is a pointer to that one object.
GetChainConfig(p) ==
    /\ pc[p] = "GetChainConfig"
    /\ IF chainConfigs[networkID[p]]
       THEN UNCHANGED <<chainConfigs, mainnetChainID>>
       ELSE IF ParseUint(networkID[p]).err
            THEN /\ mainnetChainID' = ParseUint(networkID[p]).val
                 /\ chainConfigs' = [chainConfigs EXCEPT ![networkID[p]] = TRUE]
            ELSE UNCHANGED <<chainConfigs, mainnetChainID>>
    /\ Return(p, NoRet)
    /\ UNCHANGED <<ethclientRpcClients, ethrpcClients, mutex, closed, dialed, op, networkID,
                   dialLocals, resolveLocals, ethNetworkClients, histVars,
                   arg, loc, txs, returned>>

\* ------------------------------------- GetLatestBlockNumber and below
\* src/ethereum.go:100-103, 523: InvokeJsonRpcClient builds its payload before
\* its POST: the payload id is GetChainID(networkID, rpcURL), which starts
\* with DialJsonRpc; the POST is made at back
InvokeJsonRpcClient_call(p, back) ==
    /\ pc' = [pc EXCEPT ![p] = "DialJsonRpc"]
    /\ stk' = [stk EXCEPT ![p] = <<"GetChainID", back>> \o @]

\* src/ethereum.go:564-565,557-559: GetLatestBlock calls InvokeJsonRpcClient
GetLatestBlockNumber_call(p) ==
    /\ pc[p] = "GetLatestBlockNumber"
    /\ InvokeJsonRpcClient_call(p, "InvokeJsonRpcClient")
    /\ UNCHANGED <<poolVars, op, networkID, ret, dialLocals, resolveLocals,
                   ethNetworkClients, histVars, txVars>>

\* src/ethereum.go:524-541: without a client the id is nil; with one, the
\* net_version request is made and its failure gives a nil id as well; the
\* id goes into the payload and InvokeJsonRpcClient goes on to its POST
GetChainID(p) ==
    /\ pc[p] = "GetChainID"
    /\ netlog' = [netlog EXCEPT ![p] =
                    IF ret[p].err = "nil" THEN @ \cup {"net_version"} ELSE @]
    /\ Return(p, NoRet)
    /\ UNCHANGED <<poolVars, op, networkID, dialLocals, resolveLocals,
                   ethNetworkClients, calls, hit, inval, poisoned, avoid, txVars>>

\* a hex quantity of a JSON-RPC response: whether it has the 0x prefix, and
\* its digits
Hex(prefix, digits) == [prefix |-> prefix, digits |-> digits]
NoHex == Hex(FALSE, <<>>)

RECURSIVE HexValue(_)
HexValue(digits) ==
    IF digits = <<>> THEN 0
    ELSE 16 * HexValue(SubSeq(digits, 1, Len(digits) - 1)) + digits[Len(digits)]

\* hexutil.DecodeUint64: the prefix is required, the number must not be
\* empty and must have no leading zero
DecodeUint64(h) ==
    IF ~h.prefix \/ h.digits = <<>> \/ (Len(h.digits) > 1 /\ h.digits[1] = 0)
    THEN Err("decode")
    ELSE Ok(HexValue(h.digits))

\* "number" fields a node may answer with: 0x2a, 0x2dc6c0 (3000000), and 2a
\* without the prefix
BlockNumbers ==
    {Hex(TRUE, <<2, 10>>), Hex(TRUE, <<2, 13, 12, 6, 12, 0>>), Hex(FALSE, <<2, 10>>)}

\* what the HTTP POST of eth_getBlockByNumber can come back with: a transport
\* or unmarshal failure, the body null (json.Unmarshal into the
\* **EthereumJsonRpcResponse sets the response pointer to nil), a body whose
\* result is null or absent (a JSON-RPC error object included), a block
\* object without a string "number", or a block object with one
Responses ==
    {[kind |-> k, number |-> NoHex] :
        k \in {"postError", "nullBody", "nullResult", "noNumber"}}
        \cup {[kind |-> "block", number |-> h] : h \in BlockNumbers}

\* src/ethereum.go:111-124,566-577: a transport or unmarshal error is returned;
\* resp.Result on a nil response is a nil dereference; a result that is no
\* JSON object makes the unchecked type assertion
\* resp.Result.(map[string]interface{}) panic; a result without a string
\* "number" is an error; otherwise the number is decoded
InvokeJsonRpcClient(p) ==
    /\ pc[p] = "InvokeJsonRpcClient"
    /\ netlog' = [netlog EXCEPT ![p] = @ \cup {"eth_getBlockByNumber"}]
    /\ \E resp \in Responses :
        CASE resp.kind = "postError" -> Return(p, Err("rpc"))
          [] resp.kind \in {"nullBody", "nullResult"} -> Panic(p)
          [] resp.kind = "noNumber" -> Return(p, Err("parse"))
          [] OTHER -> Return(p, DecodeUint64(resp.number))
    /\ UNCHANGED <<poolVars, op, networkID, dialLocals, resolveLocals,
                   ethNetworkClients, calls, hit, inval, poisoned, avoid, txVars>>

\* ---------------------------------------------------------------- SignTx
\* src/ethereum.go:377: client, err := DialJsonRpc(networkID, rpcURL)
SignTx_call(p) ==
    /\ pc[p] = "SignTx"
    /\ Call(p, "DialJsonRpc", "SignTx_dialed")
    /\ UNCHANGED <<poolVars, op, networkID, ret, dialLocals, resolveLocals,
                   ethNetworkClients, histVars, txVars>>

\* src/ethereum.go:378-383,440: the dial error is returned; then a second
\* liveness probe, whose error is returned without invalidating the cache;
\* then GetChainConfig
SignTx_dialed(p) ==
    /\ pc[p] = "SignTx_dialed"
    /\ IF ret[p].err # "nil"
       THEN /\ Return(p, Err(ret[p].err))
            /\ UNCHANGED <<netlog, loc>>
       ELSE /\ netlog' = [netlog EXCEPT ![p] = @ \cup {"eth_syncing"}]
            /\ \E ok \in GetSyncProgress(ret[p].val.c) :
                IF ok
                THEN /\ loc' = [loc EXCEPT ![p].client = ret[p].val,
                                           ![p].gasLimit = arg[p].gasLimit]
                     /\ ret' = [ret EXCEPT ![p] = NoRet]
                     /\ Call(p, "GetChainConfig", "SignTx_cfg")
                ELSE /\ Return(p, Err("probe"))
                     /\ UNCHANGED loc
    /\ UNCHANGED <<poolVars, op, networkID, dialLocals, resolveLocals, ethNetworkClients,
                   calls, hit, inval, poisoned, avoid, mainnetChainID, arg, txs, returned>>

\* src/ethereum.go:384: blockNumber, err := GetLatestBlockNumber(networkID, rpcURL)
SignTx_cfg(p) ==
    /\ pc[p] = "SignTx_cfg"
    /\ Call(p, "GetLatestBlockNumber", "SignTx_nonce")
    /\ UNCHANGED <<poolVars, op, networkID, ret, dialLocals, resolveLocals,
                   ethNetworkClients, histVars, txVars>>

\* a request on the connection of a high-level client succeeds or fails,
\* on a client that was closed as well (over HTTP Close() does nothing)
Request(c) == BOOLEAN

\* src/ethereum.go:384-391: blockNumber is kept; the block-number error is
\* returned; then client.PendingNonceAt, whose error is returned
SignTx_nonce(p) ==
    /\ pc[p] = "SignTx_nonce"
    /\ IF ret[p].err # "nil"
       THEN /\ Return(p, Err(ret[p].err))
            /\ UNCHANGED <<netlog, loc>>
       ELSE /\ netlog' = [netlog EXCEPT ![p] = @ \cup {"eth_getTransactionCount"}]
            /\ loc' = [loc EXCEPT ![p].blockNumber = ret[p].val]
            /\ \E ok \in Request(loc[p].client.c) :
                IF ok THEN Goto(p, "SignTx_gasPrice") /\ UNCHANGED ret
                      ELSE Return(p, Err("nonce"))
    /\ UNCHANGED <<poolVars, op, networkID, dialLocals, resolveLocals, ethNetworkClients,
                   calls, hit, inval, poisoned, avoid, mainnetChainID, arg, txs, returned>>

\* src/ethereum.go:392: gasPrice, _ := client.SuggestGasPrice(...): the error
\* is dropped and gasPrice is nil when the request fails
SignTx_gasPrice(p) ==
    /\ pc[p] = "SignTx_gasPrice"
    /\ netlog' = [netlog EXCEPT ![p] = @ \cup {"eth_gasPrice"}]
    /\ \E ok \in Request(loc[p].client.c) :
        loc' = [loc EXCEPT ![p].gasPrice = IF ok THEN "price" ELSE "nil"]
    /\ Goto(p, "SignTx_estimate")
    /\ UNCHANGED <<poolVars, op, networkID, ret, dialLocals, resolveLocals, ethNetworkClients,
                   calls, hit, inval, poisoned, avoid, mainnetChainID, arg, txs, returned>>

EstimatedGas == {53000}

\* SignTx estimating whatever gas limit the caller gave
SignTx_estimate_always(p) ==
    /\ pc[p] = "SignTx_estimate"
    /\ IF loc[p].gasPrice = "nil"
       THEN /\ Panic(p)
            /\ UNCHANGED <<netlog, loc>>
       ELSE /\ netlog' = [netlog EXCEPT ![p] = @ \cup {"eth_estimateGas"}]
            /\ \E ok \in Request(loc[p].client.c) :
                IF ok
                THEN \E g \in EstimatedGas :
                       loc' = [loc EXCEPT ![p].gasLimit = g, ![p].err = "nil"]
                ELSE loc' = [loc EXCEPT ![p].gasLimit = 0, ![p].err = "estimate"]
            /\ Goto(p, "SignTx_build")
            /\ UNCHANGED ret
    /\ UNCHANGED <<poolVars, op, networkID, dialLocals, resolveLocals, ethNetworkClients,
                   calls, hit, inval, poisoned, avoid, mainnetChainID, arg, txs, returned>>

\* src/ethereum.go:400-403: only when gasLimit == 0: gasPrice.Uint64() on a nil
\* gasPrice panics; gasLimit, err = client.EstimateGas(...)
SignTx_estimate(p) ==
    /\ pc[p] = "SignTx_estimate"
    /\ IF loc[p].gasLimit # 0
       THEN /\ Goto(p, "SignTx_build")
            /\ UNCHANGED <<ret, netlog, loc>>
       ELSE IF loc[p].gasPrice = "nil"
            THEN /\ Panic(p)
                 /\ UNCHANGED <<netlog, loc>>
            ELSE /\ netlog' = [netlog EXCEPT ![p] = @ \cup {"eth_estimateGas"}]
                 /\ \E ok \in Request(loc[p].client.c) :
                     IF ok
                     THEN \E g \in EstimatedGas :
                            loc' = [loc EXCEPT ![p].gasLimit = g, ![p].err = "nil"]
                     ELSE loc' = [loc EXCEPT ![p].gasLimit = 0, ![p].err = "estimate"]
                 /\ Goto(p, "SignTx_build")
                 /\ UNCHANGED ret
    /\ UNCHANGED <<poolVars, op, networkID, dialLocals, resolveLocals, ethNetworkClients,
                   calls, hit, inval, poisoned, avoid, mainnetChainID, arg, txs, returned>>

\* types.NewTransaction / types.NewContractCreation: an unsigned transaction
NewTransaction(to, gasLimit, gasPrice) ==
    [to |-> to, gasLimit |-> gasLimit,
     chainID |-> -1, sig |-> FALSE, submitted |-> FALSE, sent |-> FALSE]

\* SignTx without the error check in the contract-creation branch
SignTx_build_uncheckedCreation(p) ==
    /\ pc[p] = "SignTx_build"
    /\ IF arg[p].to # "nil" /\ loc[p].err # "nil"
       THEN /\ Return(p, Err(loc[p].err))
            /\ UNCHANGED <<txs, loc>>
       ELSE /\ txs' = Append(txs, NewTransaction(arg[p].to, loc[p].gasLimit, loc[p].gasPrice))
            /\ loc' = [loc EXCEPT ![p].tx = Len(txs) + 1]
            /\ Goto(p, "SignTx_sign")
            /\ UNCHANGED ret
    /\ UNCHANGED <<poolVars, op, networkID, dialLocals, resolveLocals, ethNetworkClients,
                   histVars, mainnetChainID, arg, returned>>

\* src/ethereum.go:405-419: in both branches the estimation error is returned
\* before a transaction is constructed
SignTx_build(p) ==
    /\ pc[p] = "SignTx_build"
    /\ IF arg[p].to # "nil"
       THEN IF loc[p].err # "nil"
            THEN /\ Return(p, Err(loc[p].err))
                 /\ UNCHANGED <<txs, loc>>
            ELSE /\ txs' = Append(txs, NewTransaction(arg[p].to, loc[p].gasLimit, loc[p].gasPrice))
                 /\ loc' = [loc EXCEPT ![p].tx = Len(txs) + 1]
                 /\ Goto(p, "SignTx_sign")
                 /\ UNCHANGED ret
       ELSE IF loc[p].err # "nil"
            THEN /\ Return(p, Err(loc[p].err))
                 /\ UNCHANGED <<txs, loc>>
            ELSE /\ txs' = Append(txs, NewTransaction("nil", loc[p].gasLimit, loc[p].gasPrice))
                 /\ loc' = [loc EXCEPT ![p].tx = Len(txs) + 1]
                 /\ Goto(p, "SignTx_sign")
                 /\ UNCHANGED ret
    /\ UNCHANGED <<poolVars, op, networkID, dialLocals, resolveLocals, ethNetworkClients,
                   histVars, mainnetChainID, arg, returned>>

\* params.MainnetChainConfig.EIP155Block, the fork block types.MakeSigner
\* tests with the block number SignTx passes (src/ethereum.go:420)
EIP155Block == 2675000

\* types.MakeSigner(cfg, blockNumber): the EIP155 signer of cfg.ChainID from
\* the fork block on, and before it a Homestead or Frontier signer, whose
\* hash and signature carry no chain id
MakeSigner(chainID, blockNumber) ==
    [eip155 |-> blockNumber >= EIP155Block,
     chainId |-> IF blockNumber >= EIP155Block THEN chainID ELSE 0]

\* src/ethereum.go:420-438: the signer is made from the chain id the shared
\* config object has now and the latest block number; HexToECDSA rejects a
\* malformed key; a failure of Sign is formatted with *to, a nil dereference
\* for a contract creation; otherwise the signature is attached, so that the
\* transaction's ChainId() is the signer's (0 without EIP155), and the signed
\* transaction is returned
SignTx_sign(p) ==
    /\ pc[p] = "SignTx_sign"
    /\ IF arg[p].privateKey # "valid"
       THEN /\ Return(p, Err("key"))
            /\ UNCHANGED <<txs, returned>>
       ELSE \E signed \in BOOLEAN :
              IF signed
              THEN /\ txs' = [txs EXCEPT ![loc[p].tx].sig = TRUE,
                                         ![loc[p].tx].chainID =
                                             MakeSigner(mainnetChainID,
                                                        loc[p].blockNumber).chainId]
                   /\ returned' = returned \cup {loc[p].tx}
                   /\ Return(p, Ok(loc[p].tx))
              ELSE /\ IF arg[p].to = "nil" THEN Panic(p) ELSE Return(p, Err("sign"))
                   /\ UNCHANGED <<txs, returned>>
    /\ UNCHANGED <<poolVars, op, networkID, dialLocals, resolveLocals, ethNetworkClients,
                   histVars, mainnetChainID, arg, loc>>

\* ------------------------------------------- BroadcastSignedTx, BroadcastTx
\* src/ethereum.go:360: client, err := DialJsonRpc(networkID, rpcURL)
BroadcastSignedTx_call(p) ==
    /\ pc[p] = "BroadcastSignedTx"
    /\ Call(p, "DialJsonRpc", "BroadcastSignedTx_dialed")
    /\ UNCHANGED <<poolVars, op, networkID, ret, dialLocals, resolveLocals,
                   ethNetworkClients, histVars, txVars>>

\* src/ethereum.go:361-365,370: the dial error is returned; a non-nil
\* transaction goes to BroadcastTx; a nil transaction is answered with a nil
\* error
BroadcastSignedTx_dialed(p) ==
    /\ pc[p] = "BroadcastSignedTx_dialed"
    /\ IF ret[p].err # "nil"
       THEN Return(p, Err(ret[p].err))
       ELSE IF arg[p].signedTx # 0
            THEN /\ ret' = [ret EXCEPT ![p] = NoRet]
                 /\ Call(p, "BroadcastTx", "BroadcastSignedTx_done")
            ELSE Return(p, NoRet)
    /\ UNCHANGED <<poolVars, op, networkID, dialLocals, resolveLocals,
                   ethNetworkClients, histVars, txVars>>

\* src/ethereum.go:344-345: rpcClient, err := ResolveJsonRpcClient(networkID, rpcURL)
BroadcastTx_call(p) ==
    /\ pc[p] = "BroadcastTx"
    /\ Call(p, "ResolveJsonRpcClient", "BroadcastTx_send")
    /\ UNCHANGED <<poolVars, op, networkID, ret, dialLocals, resolveLocals,
                   ethNetworkClients, histVars, txVars>>

\* src/ethereum.go:346-355: the resolve error is returned; the transaction,
\* signed or not, is RLP-encoded and submitted with eth_sendRawTransaction on
\* the low-level client
BroadcastTx_send(p) ==
    /\ pc[p] = "BroadcastTx_send"
    /\ IF ret[p].err # "nil"
       THEN /\ Return(p, Err(ret[p].err))
            /\ UNCHANGED <<netlog, txs>>
       ELSE /\ netlog' = [netlog EXCEPT ![p] = @ \cup {"eth_sendRawTransaction"}]
            /\ \E ok \in Request(ret[p].val) :
                IF ok
                THEN /\ txs' = [txs EXCEPT ![arg[p].signedTx].submitted = TRUE,
                                           ![arg[p].signedTx].sent = TRUE]
                     /\ Return(p, NoRet)
                ELSE /\ txs' = [txs EXCEPT ![arg[p].signedTx].submitted = TRUE]
                     /\ Return(p, Err("send"))
    /\ UNCHANGED <<poolVars, op, networkID, dialLocals, resolveLocals, ethNetworkClients,
                   calls, hit, inval, poisoned, avoid, mainnetChainID, arg, loc, returned>>

\* src/ethereum.go:366-370: the error of BroadcastTx is wrapped, else nil
BroadcastSignedTx_done(p) ==
    /\ pc[p] = "BroadcastSignedTx_done"
    /\ IF ret[p].err # "nil" THEN Return(p, Err(ret[p].err)) ELSE Return(p, NoRet)
    /\ UNCHANGED <<poolVars, op, networkID, dialLocals, resolveLocals,
                   ethNetworkClients, histVars, txVars>>

\* ------------------------------------------------ GetPeerCount and others
\* what the actions below leave alone
netFrame == <<poolVars, op, networkID, dialLocals, resolveLocals, ethNetworkClients,
              calls, hit, inval, poisoned, avoid, mainnetChainID, arg, txs, returned>>

\* what the POST of a method with a string result can come back with: a
\* transport or unmarshal failure, the body null (the response pointer is
\* nil afterwards), a body whose result is null or absent (the JSON-RPC
\* error object of an unsupported method included), or a string
StringResponses(strings) ==
    {[kind |-> k, result |-> NoHex] : k \in {"postError", "nullBody", "nullResult"}}
        \cup {[kind |-> "string", result |-> h] : h \in strings}

\* net_peerCount results: 0x19, and 19 without the prefix
PeerCounts == {Hex(TRUE, <<1, 9>>), Hex(FALSE, <<1, 9>>)}

\* src/ethereum.go:706-711: InvokeJsonRpcClient of net_peerCount
GetPeerCount_call(p) ==
    /\ pc[p] = "GetPeerCount"
    /\ InvokeJsonRpcClient_call(p, "GetPeerCount_invoke")
    /\ UNCHANGED <<ret, netlog, loc, netFrame>>

\* src/ethereum.go:111, 711-724: the POST of net_peerCount; on an error of the
\* invocation the fallback is invoked; resp.Result on a nil response is a nil dereference;
\* a string result is decoded, 0 on a decode error; any other result leaves
\* peerCount 0
GetPeerCount_invoke(p) ==
    /\ pc[p] = "GetPeerCount_invoke"
    /\ netlog' = [netlog EXCEPT ![p] = @ \cup {"net_peerCount"}]
    /\ \E resp \in StringResponses(PeerCounts) :
        CASE resp.kind = "postError" ->
                /\ InvokeJsonRpcClient_call(p, "GetPeerCount_fallback")
                /\ ret' = [ret EXCEPT ![p] = NoRet]
          [] resp.kind = "nullBody" -> Panic(p)
          [] resp.kind = "nullResult" -> Return(p, Ok(0))
          [] OTHER -> IF DecodeUint64(resp.result).err # "nil"
                      THEN Return(p, Ok(0))
                      ELSE Return(p, Ok(DecodeUint64(resp.result).val))
    /\ UNCHANGED <<loc, netFrame>>

\* src/ethereum.go:111, 714-716: the POST of parity_netPeers; err.Error() is called on its
\* error, a nil dereference when the invocation succeeded; 0 is returned
\* when it failed
GetPeerCount_fallback(p) ==
    /\ pc[p] = "GetPeerCount_fallback"
    /\ netlog' = [netlog EXCEPT ![p] = @ \cup {"parity_netPeers"}]
    /\ \E resp \in StringResponses(PeerCounts) :
        IF resp.kind = "postError" THEN Return(p, Ok(0)) ELSE Panic(p)
    /\ UNCHANGED <<loc, netFrame>>

\* eth_protocolVersion results
ProtocolVersions == {Hex(TRUE, <<3, 15>>)}

\* src/ethereum.go:728-732
GetProtocolVersion_call(p) ==
    /\ pc[p] = "GetProtocolVersion"
    /\ InvokeJsonRpcClient_call(p, "GetProtocolVersion_invoke")
    /\ UNCHANGED <<ret, netlog, loc, netFrame>>

\* src/ethereum.go:111, 732-740: the POST of eth_protocolVersion; on an error of the invocation
\* the fallback is invoked; resp.Result on a nil response is a nil
\* dereference and resp.Result.(string) is an unchecked assertion
GetProtocolVersion_invoke(p) ==
    /\ pc[p] = "GetProtocolVersion_invoke"
    /\ netlog' = [netlog EXCEPT ![p] = @ \cup {"eth_protocolVersion"}]
    /\ \E resp \in StringResponses(ProtocolVersions) :
        CASE resp.kind = "postError" ->
                /\ InvokeJsonRpcClient_call(p, "GetProtocolVersion_fallback")
                /\ ret' = [ret EXCEPT ![p] = NoRet]
          [] resp.kind \in {"nullBody", "nullResult"} -> Panic(p)
          [] OTHER -> Return(p, Ok("version"))
    /\ UNCHANGED <<loc, netFrame>>

\* src/ethereum.go:111, 735-738: the POST of net_version; err.Error() on its error, a nil
\* dereference when the invocation succeeded; nil is returned when it failed
GetProtocolVersion_fallback(p) ==
    /\ pc[p] = "GetProtocolVersion_fallback"
    /\ netlog' = [netlog EXCEPT ![p] = @ \cup {"net_version"}]
    /\ \E resp \in StringResponses(ProtocolVersions) :
        IF resp.kind = "postError" THEN Return(p, Ok("nil")) ELSE Panic(p)
    /\ UNCHANGED <<loc, netFrame>>

\* ----------------------------------------------------- GetNetworkStatus
\* src/api/nchain/models.go:181-191: the fields of NetworkStatus; header says
\* whether Meta holds "last_block_header", metaError is Meta["error"].  State
\* is the string handed to stringOrNil.
NetworkStatus(state, syncing, block, height, lastBlockAt, header, l, metaError) ==
    [isNil |-> FALSE, State |-> state, Syncing |-> syncing, Block |-> block, Height |-> height,
     LastBlockAt |-> lastBlockAt, header |-> header, ChainID |-> l.chainID,
     PeerCount |-> l.peers, ProtocolVersion |-> l.protocolVersion, metaError |-> metaError]

\* a nil *NetworkStatus
NilStatus == [NetworkStatus("", FALSE, 0, Absent, Absent, FALSE, NoLoc, "nil") EXCEPT !.isNil = TRUE]

\* what client.SyncProgress reports when the request succeeds: nil, or a
\* progress record
SyncReports == {NoSync, [syncing |-> TRUE, CurrentBlock |-> 5, HighestBlock |-> 9]}

\* the "timestamp" field of a block object: a hex string, or missing
Timestamps == {[present |-> TRUE, hex |-> Hex(TRUE, <<6, 0>>)],
               [present |-> FALSE, hex |-> NoHex]}

\* src/ethereum.go:624
GetNetworkStatus_call(p) ==
    /\ pc[p] = "GetNetworkStatus"
    /\ Call(p, "DialJsonRpc", "GetNetworkStatus_dialed")
    /\ UNCHANGED <<ret, netlog, loc, netFrame>>

\* src/ethereum.go:625-660: without a client the "configuring" status is
\* returned with a nil error; then the recover() handler is deferred and the
\* sync progress is read: its error invalidates the cache and is returned;
\* otherwise GetChainID is called, which starts with DialJsonRpc
GetNetworkStatus_dialed(p) ==
    /\ pc[p] = "GetNetworkStatus_dialed"
    /\ IF ret[p].err # "nil" \/ arg[p].rpcURL = ""
       THEN /\ Return(p, Ok(NetworkStatus("configuring", FALSE, 0, Absent, Absent, FALSE, NoLoc,
                                          IF ret[p].err # "nil" THEN ret[p].err ELSE "no url")))
            /\ UNCHANGED <<netlog, loc>>
       ELSE /\ netlog' = [netlog EXCEPT ![p] = @ \cup {"eth_syncing"}]
            /\ \E ok \in GetSyncProgress(ret[p].val.c) :
                IF ok
                THEN \E s \in SyncReports :
                        /\ loc' = [loc EXCEPT ![p].client = ret[p].val, ![p].syncProgress = s]
                        /\ ret' = [ret EXCEPT ![p] = NoRet]
                        /\ Call(p, "DialJsonRpc", "GetNetworkStatus_chainID")
                ELSE /\ Call(p, "clearCachedClients", "GetNetworkStatus_failed")
                     /\ UNCHANGED <<ret, loc>>
    /\ UNCHANGED netFrame

\* src/ethereum.go:654: return nil, err
GetNetworkStatus_failed(p) ==
    /\ pc[p] = "GetNetworkStatus_failed"
    /\ Return(p, Err("probe"))
    /\ UNCHANGED <<netlog, loc, netFrame>>

\* src/ethereum.go:660, 524-541, 661: chainID is nil without a client or when
\* the net_version request fails; then GetPeerCount is called
GetNetworkStatus_chainID(p) ==
    /\ pc[p] = "GetNetworkStatus_chainID"
    /\ IF ret[p].err # "nil"
       THEN /\ loc' = [loc EXCEPT ![p].chainID = "nil"]
            /\ UNCHANGED netlog
       ELSE /\ netlog' = [netlog EXCEPT ![p] = @ \cup {"net_version"}]
            /\ \E ok \in Request(ret[p].val.c) :
                loc' = [loc EXCEPT ![p].chainID = IF ok THEN "id" ELSE "nil"]
    /\ ret' = [ret EXCEPT ![p] = NoRet]
    /\ Call(p, "GetPeerCount", "GetNetworkStatus_peers")
    /\ UNCHANGED netFrame

\* src/ethereum.go:661-662: peers is kept; GetProtocolVersion is called
GetNetworkStatus_peers(p) ==
    /\ pc[p] = "GetNetworkStatus_peers"
    /\ loc' = [loc EXCEPT ![p].peers = ret[p].val]
    /\ ret' = [ret EXCEPT ![p] = NoRet]
    /\ Call(p, "GetProtocolVersion", "GetNetworkStatus_version")
    /\ UNCHANGED <<netlog, netFrame>>

\* src/ethereum.go:692-702: hexutil.EncodeBig(chainID) dereferences a nil
\* chainID, a panic the deferred handler recovers
GetNetworkStatus_return(p, status) ==
    IF status.ChainID = "nil" THEN Recover(p) ELSE Return(p, Ok(status))

\* GetNetworkStatus leaving state "synced" while the node is syncing
GetNetworkStatus_version_alwaysSynced(p) ==
    /\ pc[p] = "GetNetworkStatus_version"
    /\ loc' = [loc EXCEPT ![p].protocolVersion = ret[p].val]
    /\ IF ~loc[p].syncProgress.syncing
       THEN /\ ret' = [ret EXCEPT ![p] = NoRet]
            /\ InvokeJsonRpcClient_call(p, "GetNetworkStatus_block")
       ELSE GetNetworkStatus_return(p,
                NetworkStatus("synced", TRUE, loc[p].syncProgress.CurrentBlock,
                              loc[p].syncProgress.HighestBlock, Absent, FALSE, loc'[p], "nil"))
    /\ UNCHANGED <<netlog, netFrame>>

\* src/ethereum.go:662-667, 687-702: protocolVersion is kept; when the node
\* reported no progress GetLatestBlock is called (InvokeJsonRpcClient, which
\* starts with GetChainID and DialJsonRpc); otherwise the syncing status is
\* returned, its state the empty string
GetNetworkStatus_version(p) ==
    /\ pc[p] = "GetNetworkStatus_version"
    /\ loc' = [loc EXCEPT ![p].protocolVersion = ret[p].val]
    /\ IF ~loc[p].syncProgress.syncing
       THEN /\ ret' = [ret EXCEPT ![p] = NoRet]
            /\ InvokeJsonRpcClient_call(p, "GetNetworkStatus_block")
       ELSE GetNetworkStatus_return(p,
                NetworkStatus("", TRUE, loc[p].syncProgress.CurrentBlock,
                              loc[p].syncProgress.HighestBlock, Absent, FALSE, loc'[p], "nil"))
    /\ UNCHANGED <<netlog, netFrame>>

\* src/ethereum.go:111, 667-686, 692-702: the POST of eth_getBlockByNumber; the
\* error of GetLatestBlock is returned;
\* resp.Result on a nil response, resp.Result.(map[string]interface{}), hdr["number"].(string) and
\* hdr["timestamp"].(string) are unchecked assertions; a decode error is
\* returned; otherwise the synced status is returned
GetNetworkStatus_block(p) ==
    /\ pc[p] = "GetNetworkStatus_block"
    /\ netlog' = [netlog EXCEPT ![p] = @ \cup {"eth_getBlockByNumber"}]
    /\ \E resp \in Responses, ts \in Timestamps :
        CASE resp.kind = "postError" -> Return(p, Err("rpc"))
          [] resp.kind \in {"nullBody", "nullResult", "noNumber"} -> Recover(p)
          [] OTHER ->
             IF DecodeUint64(resp.number).err # "nil" THEN Return(p, Err("decode"))
             ELSE IF ~ts.present THEN Recover(p)
             ELSE IF DecodeUint64(ts.hex).err # "nil" THEN Return(p, Err("decode"))
             ELSE GetNetworkStatus_return(p,
                     NetworkStatus("synced", FALSE, DecodeUint64(resp.number).val, Absent,
                                   DecodeUint64(ts.hex).val, TRUE, loc[p], "nil"))
    /\ UNCHANGED <<loc, netFrame>>

\* src/ethereum.go:643-648: after the recovered panic the function returns
\* the zero values of its results: a nil status and a nil error
GetNetworkStatus_recovered(p) ==
    /\ pc[p] = "GetNetworkStatus_recovered"
    /\ Return(p, Ok(NilStatus))
    /\ UNCHANGED <<netlog, loc, netFrame>>

\* ------------------------------------------------------- GetTokenBalance
\* the contractABI argument: the JSON of an ERC-20 ABI, of an ABI without
\* balanceOf, or a value abi.JSON rejects
ContractABIs == {"erc20", "noBalanceOf", "invalid"}

\* the bytes eth_call returns: n bytes, given as the hex digits of their value
Bytes(n, digits) == [len |-> n, digits |-> digits]

\* results of the balanceOf call: the 32-byte word 0x...03e8, and no bytes
CallResults == {Bytes(32, <<3, 14, 8>>), Bytes(0, <<>>)}

\* method.Outputs.Unpack(&balance, result) for the single uint256 output:
\* balance is set from a 32-byte word and left nil otherwise (the error
\* Unpack returns is dropped at src/ethereum.go:795)
Unpack(result) == IF result.len = 32 THEN HexValue(result.digits) ELSE Absent

\* src/ethereum.go:777-782: the error of parseContractABI is returned; then
\* DialJsonRpc
GetTokenBalance_call(p) ==
    /\ pc[p] = "GetTokenBalance"
    /\ IF arg[p].contractABI = "invalid"
       THEN Return(p, Err("abi"))
       ELSE Call(p, "DialJsonRpc", "GetTokenBalance_dialed") /\ UNCHANGED ret
    /\ UNCHANGED <<netlog, loc, netFrame>>

\* src/ethereum.go:782-783: the error of DialJsonRpc is not looked at and
\* client.SuggestGasPrice dereferences the nil client; the error of
\* SuggestGasPrice is dropped and gasPrice is nil when the request fails
GetTokenBalance_dialed(p) ==
    /\ pc[p] = "GetTokenBalance_dialed"
    /\ IF ret[p].err # "nil"
       THEN /\ Panic(p)
            /\ UNCHANGED <<netlog, loc>>
       ELSE /\ netlog' = [netlog EXCEPT ![p] = @ \cup {"eth_gasPrice"}]
            /\ \E ok \in Request(ret[p].val.c) :
                loc' = [loc EXCEPT ![p].client = ret[p].val,
                                   ![p].gasPrice = IF ok THEN "price" ELSE "nil"]
            /\ Goto(p, "GetTokenBalance_callContract")
            /\ ret' = [ret EXCEPT ![p] = NoRet]
    /\ UNCHANGED netFrame

\* src/ethereum.go:784-803: client.CallContract, whose error is dropped (a
\* failed call has no result); the result is unpacked when the ABI has
\* balanceOf; with a balance GetTokenSymbol is called for the log line;
\* (balance, nil) is returned
GetTokenBalance_callContract(p) ==
    /\ pc[p] = "GetTokenBalance_callContract"
    /\ netlog' = [netlog EXCEPT ![p] = @ \cup {"eth_call"}]
    /\ \E ok \in Request(loc[p].client.c), r \in CallResults :
        LET result == IF ok THEN r ELSE Bytes(0, <<>>)
            balance == IF arg[p].contractABI = "erc20" THEN Unpack(result) ELSE Absent
        IN /\ loc' = [loc EXCEPT ![p].balance = balance]
           /\ IF balance # Absent
              THEN /\ Call(p, "DialJsonRpc", "GetTokenBalance_symbol")
                   /\ ret' = [ret EXCEPT ![p] = NoRet]
              ELSE Return(p, Ok(balance))
    /\ UNCHANGED netFrame

\* src/ethereum.go:797, 808-834, 803: GetTokenSymbol makes its eth_call when
\* it has a client; its results are used for the log line only
GetTokenBalance_symbol(p) ==
    /\ pc[p] = "GetTokenBalance_symbol"
    /\ netlog' = [netlog EXCEPT ![p] = IF ret[p].err = "nil" THEN @ \cup {"eth_call"} ELSE @]
    /\ Return(p, Ok(loc[p].balance))
    /\ UNCHANGED <<loc, netFrame>>

\* ------------------------------------------------------------ the callers
PoolOps == {"DialJsonRpc", "ResolveJsonRpcClient", "ResolveEthClient", "clearCachedClients",
            "GetChainConfig"}

\* an invalidation of network n holds the mutex
Clearing(n) ==
    \E q \in Procs : /\ networkID[q] = n
                     /\ pc[q] \in {"clearCachedClients_close", "clearCachedClients_reset"}

\* a goroutine that is not inside the package calls one of its functions
Enter(p, o, n, a) ==
    /\ pc[p] \in {"idle", "done"}
    /\ calls' = calls + 1
    /\ pc' = [pc EXCEPT ![p] = o]
    /\ op' = [op EXCEPT ![p] = o]
    /\ networkID' = [networkID EXCEPT ![p] = n]
    /\ ret' = [ret EXCEPT ![p] = NoRet]
    /\ netlog' = [netlog EXCEPT ![p] = {}]
    /\ hit' = [hit EXCEPT ![p] = NilRpc]
    /\ inval' = [inval EXCEPT ![p] = Clearing(n)]
    /\ avoid' = [avoid EXCEPT ![p] = poisoned]
    /\ arg' = [arg EXCEPT ![p] = a]
    /\ loc' = [loc EXCEPT ![p] = NoLoc]
    /\ UNCHANGED <<poolVars, stk, dialLocals, resolveLocals, ethNetworkClients, poisoned,
                   mainnetChainID, returned>>

\* a call whose arguments are values the caller already holds
Begin(p, o, n, a) == Enter(p, o, n, a) /\ txs' = txs

PoolCall(p) ==
    /\ calls < MaxCalls
    /\ \E o \in PoolOps, n \in PoolIDs : Begin(p, o, n, NoArg)

Init ==
    /\ chainConfigs = [n \in NetworkIDs |-> FALSE]
    /\ ethclientRpcClients = [n \in NetworkIDs |-> <<>>]
    /\ ethrpcClients = [n \in NetworkIDs |-> <<>>]
    /\ mutex = NoProc
    /\ closed = {}
    /\ dialed = 0
    /\ pc = [p \in Procs |-> "idle"]
    /\ stk = [p \in Procs |-> <<>>]
    /\ op = [p \in Procs |-> "none"]
    /\ networkID = [p \in Procs |-> "1"]
    /\ ret = [p \in Procs |-> NoRet]
    /\ networkClients = [p \in Procs |-> <<>>]
    /\ rpcClient = [p \in Procs |-> NilRpc]
    /\ client = [p \in Procs |-> NilEth]
    /\ rpcNetworkClients = [p \in Procs |-> <<>>]
    /\ erpc = [p \in Procs |-> NilRpc]
    /\ ethNetworkClients = [p \in Procs |-> <<>>]
    /\ calls = 0
    /\ netlog = [p \in Procs |-> {}]
    /\ hit = [p \in Procs |-> NilRpc]
    /\ inval = [p \in Procs |-> FALSE]
    /\ poisoned = {}
    /\ avoid = [p \in Procs |-> {}]
    /\ mainnetChainID = 1
    /\ arg = [p \in Procs |-> NoArg]
    /\ loc = [p \in Procs |-> NoLoc]
    /\ txs = <<>>
    /\ returned = {}

\* ------------------------------------------- callers of the tx pipeline
TxIDs == {"3", "net-a"}
Recipients == {"nil", "addr"}
GasLimits == {0, 21000}
PrivateKeys == {"valid", "invalid"}

\* the transaction a caller builds itself with types.NewTransaction
CallerTx == NewTransaction("addr", 21000, "price")

\* the caller signs a transaction, or hands one of the exported broadcast
\* functions a *types.Transaction: one that SignTx returned, one it has built
\* itself and that carries no signature, or (BroadcastSignedTx) nil
TxCall(p) ==
    /\ calls < MaxTxCalls
    /\ \E n \in TxIDs :
        \/ \E to \in Recipients, g \in GasLimits, k \in PrivateKeys :
             Begin(p, "SignTx", n, [NoArg EXCEPT !.to = to, !.gasLimit = g, !.privateKey = k])
        \/ \E t \in returned \cup {0} :
             Begin(p, "BroadcastSignedTx", n, [NoArg EXCEPT !.signedTx = t])
        \/ \E t \in returned :
             Begin(p, "BroadcastTx", n, [NoArg EXCEPT !.signedTx = t])
        \/ \E o \in {"BroadcastSignedTx", "BroadcastTx"} :
             /\ txs' = Append(txs, CallerTx)
             /\ Enter(p, o, n, [NoArg EXCEPT !.signedTx = Len(txs) + 1])

DialSteps(p) ==
    \/ clearCachedClients_lock(p)
    \/ clearCachedClients_close(p)
    \/ clearCachedClients_reset(p)
    \/ ResolveJsonRpcClient_lookup(p)
    \/ ResolveJsonRpcClient_dial(p)
    \/ ResolveJsonRpcClient_insert(p)
    \/ ResolveJsonRpcClient_cached(p)
    \/ DialJsonRpc_lookup(p)
    \/ DialJsonRpc_insert(p)
    \/ DialJsonRpc_cached(p)
    \/ DialJsonRpc_probe(p)
    \/ DialJsonRpc_failed(p)

EthSteps(p) ==
    \/ ResolveEthClient_lookup(p)
    \/ ResolveEthClient_insert(p)
    \/ ResolveEthClient_cached(p)

Next == \E p \in Procs : PoolCall(p) \/ DialSteps(p) \/ EthSteps(p) \/ GetChainConfig(p)

\* concurrent callers of the connection pool
Spec == Init /\ [][Next]_vars

TxStep(p) ==
    \/ GetChainConfig(p)
    \/ GetLatestBlockNumber_call(p)
    \/ GetChainID(p)
    \/ InvokeJsonRpcClient(p)
    \/ SignTx_call(p)
    \/ SignTx_dialed(p)
    \/ SignTx_cfg(p)
    \/ SignTx_nonce(p)
    \/ SignTx_gasPrice(p)
    \/ SignTx_estimate(p)
    \/ SignTx_build(p)
    \/ SignTx_sign(p)
    \/ BroadcastSignedTx_call(p)
    \/ BroadcastSignedTx_dialed(p)
    \/ BroadcastTx_call(p)
    \/ BroadcastTx_send(p)
    \/ BroadcastSignedTx_done(p)

\* the goroutine that signs and broadcasts
TxProcs == {"g1"}

NextTx == \E p \in TxProcs : TxCall(p) \/ DialSteps(p) \/ TxStep(p)

\* the sign / broadcast pipeline, one call at a time
SpecTx == Init /\ [][NextTx]_vars

\* ------------------------------------------------------------ EncodeABI
\* the declared types of method.Inputs, and the Go values of params: a
\* *big.Int, a common.Address, and a nil *big.Int
AbiTypes == {"uint256", "address"}
GoValues == {"bigInt", "address", "nilBigInt"}

\* abi Type.pack of one argument: a nil pointer makes reflection panic
\* (reflect.Value.Type on the zero Value), a value of another kind than the
\* declared type is a type error, otherwise the 32-byte word of the value
PackElement(t, v) ==
    IF v = "nilBigInt" THEN [err |-> "panic", word |-> [abi |-> t, of |-> v]]
    ELSE IF (t = "uint256" /\ v = "bigInt") \/ (t = "address" /\ v = "address")
         THEN [err |-> "nil", word |-> [abi |-> t, of |-> v]]
         ELSE [err |-> "type", word |-> [abi |-> t, of |-> v]]

\* Pack without its argument count check
Pack_uncounted(inputs, args) ==
    LET bad == {i \in 1..Len(args) : PackElement(inputs[i], args[i]).err # "nil"}
    IN IF bad = {}
       THEN [err |-> "nil", words |-> [i \in 1..Len(args) |-> PackElement(inputs[i], args[i]).word]]
       ELSE LET first == CHOOSE i \in bad : \A j \in bad : i <= j
            IN [err |-> PackElement(inputs[first], args[first]).err, words |-> <<>>]

\* src/ethereum.go:189, abi Arguments.Pack: an argument count mismatch is an
\* error; the arguments are packed in order and the first one that fails
\* ends the packing
Pack(inputs, args) ==
    IF Len(args) # Len(inputs) THEN [err |-> "count", words |-> <<>>]
    ELSE LET bad == {i \in 1..Len(args) : PackElement(inputs[i], args[i]).err # "nil"}
         IN IF bad = {}
            THEN [err |-> "nil", words |-> [i \in 1..Len(args) |-> PackElement(inputs[i], args[i]).word]]
            ELSE LET first == CHOOSE i \in bad : \A j \in bad : i <= j
                 IN [err |-> PackElement(inputs[first], args[first]).err, words |-> <<>>]

\* calldata: the selector method.Id() followed by the packed words; nil has neither
Calldata(words) == [selector |-> TRUE, words |-> words]
NilCalldata == [selector |-> FALSE, words |-> <<>>]

\* src/ethereum.go:178-187: params beyond the declared inputs are dropped
Args(inputs, params) ==
    SubSeq(params, 1, IF Len(params) < Len(inputs) THEN Len(params) ELSE Len(inputs))

\* src/ethereum.go:169-196: the error of Pack is returned without calldata; a
\* panic of Pack is recovered by the deferred handler (lines 171-175), which
\* leaves both results at their zero values: nil calldata and a nil error
EncodeABI(inputs, params) ==
    LET packed == Pack(inputs, Args(inputs, params))
    IN CASE packed.err = "nil" -> Ok(Calldata(packed.words))
         [] packed.err = "panic" -> Ok(NilCalldata)
         [] OTHER -> [err |-> packed.err, val |-> NilCalldata]

EncodeABI_call(p) ==
    /\ pc[p] = "EncodeABI"
    /\ Return(p, EncodeABI(arg[p].inputs, arg[p].params))
    /\ UNCHANGED <<netlog, loc, netFrame>>

SeqsUpTo(S, n) == UNION {[1..k -> S] : k \in 0..n}

\* the caller encodes a call of a method with up to MaxInputs inputs
ABICall(p) ==
    /\ calls < MaxABICalls
    /\ \E i \in SeqsUpTo(AbiTypes, MaxInputs), ps \in SeqsUpTo(GoValues, MaxParams) :
          Begin(p, "EncodeABI", "1", [NoArg EXCEPT !.inputs = i, !.params = ps])

NextABI == \E p \in TxProcs : ABICall(p) \/ EncodeABI_call(p)

\* the ABI encoder applied to every method and parameter list within the bounds
SpecABI == Init /\ [][NextABI]_vars

\* ------------------------------------------------- integers of the ABI
\* An integer is a sign and a big-endian magnitude without leading zero
\* bytes, tagged with its Go type; zero has the empty magnitude.
Zeros(n) == [i \in 1..n |-> 0]

RECURSIVE Strip(_)
Strip(b) == IF b = <<>> THEN <<>> ELSE IF Head(b) = 0 THEN Strip(Tail(b)) ELSE b

\* b + 1 modulo 256^Len(b)
RECURSIVE Increment(_)
Increment(b) ==
    IF b = <<>> THEN <<>>
    ELSE IF b[Len(b)] < 255 THEN [b EXCEPT ![Len(b)] = @ + 1]
         ELSE Append(Increment(SubSeq(b, 1, Len(b) - 1)), 0)

\* two's complement of b in Len(b) bytes
Negate(b) == Increment([i \in 1..Len(b) |-> 255 - b[i]])

Integer(go, neg, mag) == [go |-> go, neg |-> neg /\ mag # <<>>, mag |-> mag]

\* abi.Type of an integer: T is IntTy or UintTy; the reflect kind is the
\* sized Go integer for 8, 16, 32 and 64 bits and a pointer (*big.Int)
\* for every other size
AbiInts == [T : {"uint", "int"}, Size : {8, 16, 32, 64, 256}]
Sized(t) == t.Size \in {8, 16, 32, 64}
Bytes8(t) == t.Size \div 8
GoType(t) ==
    IF ~Sized(t) THEN "*big.Int"
    ELSE IF t.T = "uint"
         THEN CASE t.Size = 8 -> "uint8" [] t.Size = 16 -> "uint16"
                [] t.Size = 32 -> "uint32" [] t.Size = 64 -> "uint64"
         ELSE CASE t.Size = 8 -> "int8" [] t.Size = 16 -> "int16"
                [] t.Size = 32 -> "int32" [] t.Size = 64 -> "int64"
Kind(t) == IF Sized(t) THEN GoType(t) ELSE "Ptr"

\* the magnitudes tried: 0, 1, 127, 128, 200, 255, 256, and the largest
\* magnitudes of k bytes, unsigned and signed
Largest(k) == [i \in 1..k |-> 255]
Lowest(k) == [i \in 1..k |-> IF i = 1 THEN 128 ELSE 0]
Magnitudes(k) == {<<>>, <<1>>, <<127>>, <<128>>, <<200>>, <<255>>, <<1, 0>>, Largest(k), Lowest(k)}

\* the values an integer type holds
InRange(t, neg, mag) ==
    IF t.T = "uint" THEN ~neg /\ Len(mag) <= Bytes8(t)
    ELSE \/ Len(mag) < Bytes8(t)
         \/ Len(mag) = Bytes8(t) /\ (mag[1] < 128 \/ (neg /\ mag = Lowest(Bytes8(t))))

\* the values of type t in their native Go type
NativeValues(t) ==
    {Integer(GoType(t), neg, mag) : <<neg, mag>> \in
        {x \in BOOLEAN \X Magnitudes(Bytes8(t)) : InRange(t, x[1], x[2]) /\ (x[1] => x[2] # <<>>)}}

\* the same values as a caller of the JSON API has them: int64 or float64
LooseValues(t) ==
    {Integer(go, v.neg, v.mag) : go \in {"int64", "float64"},
                                 v \in {w \in NativeValues(t) : Len(w.mag) <= 2}}

\* src/api/privacy/models.go:590-605, 626: a sized integer type asserts an
\* int64 and makes a *big.Int of it; a *big.Int type takes a float64 only, any
\* other value leaves the switch and is the coercion error
coerceAbiParameter(t, v) ==
    IF Sized(t)
    THEN IF v.go = "int64" THEN Ok(Integer("*big.Int", v.neg, v.mag)) ELSE Err("panic")
    ELSE IF v.go = "float64" THEN Ok(Integer("*big.Int", v.neg, v.mag)) ELSE Err("coerce")

\* abi packNum / math.U256Bytes: the 32-byte big-endian two's complement
U256(v) ==
    LET padded == Zeros(32 - Len(v.mag)) \o v.mag
    IN IF v.neg THEN Negate(padded) ELSE padded

\* abi Type.pack of one integer: the kind of the Go value has to be the kind
\* of the type, then the word of the value
PackInteger(t, v) ==
    IF v.go # GoType(t) THEN [err |-> "type", word |-> <<>>]
    ELSE [err |-> "nil", word |-> U256(v)]

Last(b, k) == SubSeq(b, Len(b) - k + 1, Len(b))
Unsigned(go, b) == Integer(go, FALSE, Strip(b))
Signed(go, b) ==
    IF b[1] >= 128 THEN Integer(go, TRUE, Strip(Negate(b))) ELSE Integer(go, FALSE, Strip(b))

\* src/api/privacy/models.go:673-694: the sized kinds read their last bytes
\* in their own signedness; every other kind is big.Int.SetBytes of the whole
\* word, an unsigned value
readInteger(kind, b) ==
    CASE kind = "uint8" -> Unsigned("uint8", Last(b, 1))
      [] kind = "uint16" -> Unsigned("uint16", Last(b, 2))
      [] kind = "uint32" -> Unsigned("uint32", Last(b, 4))
      [] kind = "uint64" -> Unsigned("uint64", Last(b, 8))
      [] kind = "int8" -> Signed("int8", Last(b, 1))
      [] kind = "int16" -> Signed("int16", Last(b, 2))
      [] kind = "int32" -> Signed("int32", Last(b, 4))
      [] kind = "int64" -> Signed("int64", Last(b, 8))
      [] OTHER -> Unsigned("*big.Int", b)

\* src/api/privacy/models.go:224-245: the caller's value is coerced to its
\* declared type and appended to args; a coercion error is logged and the
\* parameter left out of args; an unchecked assertion of the coercion panics.
\* src/ethereum.go:178-187 appends the native value as it is
RoundTrip_coerce(p) ==
    /\ pc[p] = "RoundTrip"
    /\ IF arg[p].coerce
       THEN LET r == coerceAbiParameter(arg[p].t, arg[p].v)
            IN CASE r.err = "nil" ->
                      /\ loc' = [loc EXCEPT ![p].args = <<r.val>>]
                      /\ Goto(p, "RoundTrip_pack")
                      /\ ret' = ret
                 [] r.err = "panic" ->
                      /\ Return(p, r)
                      /\ loc' = loc
                 [] OTHER ->
                      /\ loc' = [loc EXCEPT ![p].args = <<>>]
                      /\ Goto(p, "RoundTrip_pack")
                      /\ ret' = ret
       ELSE /\ loc' = [loc EXCEPT ![p].args = <<arg[p].v>>]
            /\ Goto(p, "RoundTrip_pack")
            /\ ret' = ret
    /\ UNCHANGED <<netlog, netFrame>>

\* src/api/privacy/models.go:247-250, src/ethereum.go:189-192:
\* method.Inputs.Pack(args...) for the one declared input: an argument count
\* mismatch is an error, else the value is packed into its word
RoundTrip_pack(p) ==
    /\ pc[p] = "RoundTrip_pack"
    /\ IF Len(loc[p].args) # 1
       THEN /\ Return(p, Err("count"))
            /\ loc' = loc
       ELSE LET r == PackInteger(arg[p].t, loc[p].args[1])
            IN IF r.err = "nil"
               THEN /\ loc' = [loc EXCEPT ![p].word = r.word]
                    /\ Goto(p, "RoundTrip_read")
                    /\ ret' = ret
               ELSE /\ Return(p, Err(r.err))
                    /\ loc' = loc
    /\ UNCHANGED <<netlog, netFrame>>

\* the word is read back by the kind of its type
RoundTrip_read(p) ==
    /\ pc[p] = "RoundTrip_read"
    /\ Return(p, Ok(readInteger(Kind(arg[p].t), loc[p].word)))
    /\ UNCHANGED <<netlog, loc, netFrame>>

\* an integer of a declared type is encoded and decoded again
CodecCall(p) ==
    /\ calls < MaxCodecCalls
    /\ \E t \in AbiInts :
          \/ \E v \in NativeValues(t) :
                Begin(p, "RoundTrip", "1", [NoArg EXCEPT !.t = t, !.v = v])
          \/ \E v \in LooseValues(t) :
                Begin(p, "RoundTrip", "1", [NoArg EXCEPT !.t = t, !.v = v, !.coerce = TRUE])

NextCodec ==
    \E p \in TxProcs :
        CodecCall(p) \/ RoundTrip_coerce(p) \/ RoundTrip_pack(p) \/ RoundTrip_read(p)

\* the integer codec applied to the values of every integer type
SpecCodec == Init /\ [][NextCodec]_vars

\* ------------------------------------------------------ keystore export
\* Byte strings are terms. A string of key material is the set of the keys
\* and the set of the key streams XORed into it, so that XOR is the
\* symmetric difference and cancels; the
\* key derivation, the key stream and the hash are free functions of their
\* arguments (equal results only from equal arguments).
Secrets == {"pw1", "pw2"}
KeyBytes == {"key1", "key2"}
Salts == {1, 2}                \* 32 bytes read from crypto/rand
IVs == {1, 2}                  \* 16 bytes read from crypto/rand
UUIDs == {"uuid-1", "uuid-2"}  \* 16 bytes read from crypto/rand, formatted

\* src/ethereum.go:231-235
LightScryptN == 4096
LightScryptP == 6
scryptR == 4
scryptDKLen == 32

FromECDSA(k) == [plain |-> {k}, streams |-> {}]
SymDiff(a, b) == (a \ b) \cup (b \ a)
Xor(a, b) == [plain |-> SymDiff(a.plain, b.plain), streams |-> SymDiff(a.streams, b.streams)]

\* scrypt.Key(secret, salt, N, r, p, dkLen)
ScryptKey(secret, salt, n, r, pp, dklen) ==
    [secret |-> secret, salt |-> salt, n |-> n, r |-> r, p |-> pp, dklen |-> dklen]
\* derivedKey[from:to]
Slice(derivedKey, from, to) == [of |-> derivedKey, from |-> from, to |-> to]

\* src/ethereum.go:308-318: the input XORed with the AES-CTR key stream of
\* the key and the IV (a 16-byte key is never rejected by aes.NewCipher)
aesCTRXOR(key, inText, iv) ==
    Xor(inText, [plain |-> {}, streams |-> {[key |-> key, iv |-> iv]}])

Keccak256(a, b) == [keccak |-> <<a, b>>]

\* hex.EncodeToString and its inverse
EncodeToString(b) == [hex |-> b]
DecodeString(h) == h.hex

\* src/ethereum.go:320-328: the error of rand.Read is returned with ""
generateKeyUUID(ok, u) == IF ok THEN Ok(u) ELSE [err |-> "rand", val |-> ""]

\* src/ethereum.go:258-268: the salt is read and the key derived; a failed
\* read is returned (scrypt.Key accepts these parameters)
MarshalEncryptedKey_salt(p) ==
    /\ pc[p] = "MarshalEncryptedKey"
    /\ \/ /\ Return(p, Err("rand"))
          /\ loc' = loc
       \/ \E salt \in Salts :
            /\ loc' = [loc EXCEPT ![p].salt = salt,
                                  ![p].derivedKey = ScryptKey(arg[p].secret, salt, LightScryptN,
                                                              scryptR, LightScryptP, scryptDKLen)]
            /\ Goto(p, "MarshalEncryptedKey_encrypt")
            /\ ret' = ret
    /\ UNCHANGED <<netlog, netFrame>>

\* the MAC keyed with the half of the derived key that encrypts
MarshalEncryptedKey_encrypt_macFirstHalf(p) ==
    /\ pc[p] = "MarshalEncryptedKey_encrypt"
    /\ \/ /\ Return(p, Err("rand"))
          /\ loc' = loc
       \/ \E iv \in IVs :
            LET encryptKey == Slice(loc[p].derivedKey, 0, 16)
                cipherText == aesCTRXOR(encryptKey, FromECDSA(arg[p].keyBytes), iv)
            IN /\ loc' = [loc EXCEPT ![p].iv = iv, ![p].cipherText = cipherText,
                                     ![p].mac = Keccak256(Slice(loc[p].derivedKey, 0, 16), cipherText)]
               /\ Goto(p, "MarshalEncryptedKey_marshal")
               /\ ret' = ret
    /\ UNCHANGED <<netlog, netFrame>>

\* src/ethereum.go:268-281: the IV is read (a failed read is returned), the
\* key bytes are encrypted under derivedKey[:16] and the MAC is taken over
\* derivedKey[16:32] and the ciphertext
MarshalEncryptedKey_encrypt(p) ==
    /\ pc[p] = "MarshalEncryptedKey_encrypt"
    /\ \/ /\ Return(p, Err("rand"))
          /\ loc' = loc
       \/ \E iv \in IVs :
            LET encryptKey == Slice(loc[p].derivedKey, 0, 16)
                cipherText == aesCTRXOR(encryptKey, FromECDSA(arg[p].keyBytes), iv)
            IN /\ loc' = [loc EXCEPT ![p].iv = iv, ![p].cipherText = cipherText,
                                     ![p].mac = Keccak256(Slice(loc[p].derivedKey, 16, 32), cipherText)]
               /\ Goto(p, "MarshalEncryptedKey_marshal")
               /\ ret' = ret
    /\ UNCHANGED <<netlog, netFrame>>

\* src/ethereum.go:283-305: the identifier is generated, its error dropped,
\* and the record marshalled
MarshalEncryptedKey_marshal(p) ==
    /\ pc[p] = "MarshalEncryptedKey_marshal"
    /\ \E ok \in BOOLEAN, u \in UUIDs :
          Return(p, Ok([ID |-> generateKeyUUID(ok, u).val,
                        Crypto |-> [Cipher |-> "aes-128-ctr",
                                    CipherText |-> EncodeToString(loc[p].cipherText),
                                    CipherParams |-> [IV |-> EncodeToString(loc[p].iv)],
                                    KDF |-> "scrypt",
                                    KDFParams |-> [n |-> LightScryptN, r |-> scryptR,
                                                   p |-> LightScryptP, dklen |-> scryptDKLen,
                                                   salt |-> EncodeToString(loc[p].salt)],
                                    MAC |-> EncodeToString(loc[p].mac)],
                        Version |-> 3]))
    /\ UNCHANGED <<netlog, loc, netFrame>>

\* Decryption of a version 3 record with a passphrase: the key is derived
\* from the passphrase with the record's parameters, the MAC over
\* derivedKey[16:32] and the ciphertext is compared with the record's, and
\* the ciphertext is decrypted under derivedKey[:16] and the record's IV.
DecryptKey(record, passphrase) ==
    LET c == record.Crypto
        k == c.KDFParams
        derivedKey == ScryptKey(passphrase, DecodeString(k.salt), k.n, k.r, k.p, k.dklen)
        cipherText == DecodeString(c.CipherText)
    IN IF record.Version # 3 \/ c.Cipher # "aes-128-ctr" \/ c.KDF # "scrypt" THEN Err("format")
       ELSE IF Keccak256(Slice(derivedKey, 16, 32), cipherText) # DecodeString(c.MAC) THEN Err("mac")
       ELSE Ok(aesCTRXOR(Slice(derivedKey, 0, 16), cipherText, DecodeString(c.CipherParams.IV)))

DecryptKey_call(p) ==
    /\ pc[p] = "DecryptKey"
    /\ Return(p, DecryptKey(arg[p].record, arg[p].passphrase))
    /\ UNCHANGED <<netlog, loc, netFrame>>

\* a key is exported under a secret; an exported record is decrypted with a
\* passphrase
KeyCall(p) ==
    /\ calls < MaxKeyCalls
    /\ \/ \E secret \in Secrets, k \in KeyBytes :
            Begin(p, "MarshalEncryptedKey", "1", [NoArg EXCEPT !.secret = secret, !.keyBytes = k])
       \/ /\ pc[p] = "done" /\ op[p] = "MarshalEncryptedKey" /\ ret[p].err = "nil"
          /\ \E passphrase \in Secrets :
                Begin(p, "DecryptKey", "1",
                      [arg[p] EXCEPT !.record = ret[p].val, !.passphrase = passphrase])

NextKey ==
    \E p \in TxProcs :
        \/ KeyCall(p)
        \/ MarshalEncryptedKey_salt(p)
        \/ MarshalEncryptedKey_encrypt(p)
        \/ MarshalEncryptedKey_marshal(p)
        \/ DecryptKey_call(p)

\* keystore export and decryption of what was exported
SpecKey == Init /\ [][NextKey]_vars

\* ------------------------------------------------- lengthPrefixPointsTo
\* a 32-byte word holding a number below 256, one holding 255 * 256^31 and
\* one holding 2^63 - 1
Word(v) == Zeros(31) \o <<v>>
HugeWord == <<255>> \o Zeros(31)
MaxInt64Word == Zeros(24) \o <<127, 255, 255, 255, 255, 255, 255, 255>>
Words == {Word(0), Word(1), Word(32), Word(64), Word(96), HugeWord, MaxInt64Word}

RECURSIVE Concat(_)
Concat(ws) == IF ws = <<>> THEN <<>> ELSE Head(ws) \o Concat(Tail(ws))

\* the arrays behind output buffers: up to MaxWords words, with or without a
\* ragged tail
Arrays ==
    {Concat(ws) \o tail : ws \in SeqsUpTo(Words, MaxWords), tail \in {<<>>, <<0, 0, 32>>}}

\* an output buffer is a slice: the bytes from its start to its capacity, and
\* its length; the buffers are the whole arrays and the arrays cut 24 bytes
\* short (buf[:40] of a 64-byte array)
Outputs ==
    {[bytes |-> b, len |-> Len(b)] : b \in Arrays}
        \cup {[bytes |-> b, len |-> Len(b) - 24] : b \in {a \in Arrays : Len(a) >= 24}}
Indexes == {0, 1, 16, 32, 33, 64}

\* a big.Int that is not negative is its big-endian magnitude without
\* leading zero bytes
RECURSIVE ByteValue(_)
ByteValue(b) ==
    IF b = <<>> THEN 0 ELSE 256 * ByteValue(SubSeq(b, 1, Len(b) - 1)) + b[Len(b)]
SetBytes(b) == Strip(b)

\* a + b + carry of two big-endian numbers of one length, in one byte more
RECURSIVE Sum(_, _, _)
Sum(a, b, carry) ==
    IF a = <<>> THEN <<carry>>
    ELSE LET n == Len(a)
             d == a[n] + b[n] + carry
         IN Append(Sum(SubSeq(a, 1, n - 1), SubSeq(b, 1, n - 1), d \div 256), d % 256)

\* big.Int.Add
Add(x, y) ==
    LET n == IF Len(x) > Len(y) THEN Len(x) ELSE Len(y)
    IN Strip(Sum(Zeros(n - Len(x)) \o x, Zeros(n - Len(y)) \o y, 0))

\* big.Int.BitLen
RECURSIVE Bits(_)
Bits(v) == IF v = 0 THEN 0 ELSE 1 + Bits(v \div 2)
BitLen(x) == IF x = <<>> THEN 0 ELSE 8 * (Len(x) - 1) + Bits(x[1])

\* x.Cmp(big.NewInt(n)) > 0 for the length n of a buffer, which is below 256^3
Exceeds(x, n) == Len(x) > 3 \/ ByteValue(x) > n

\* src/api/privacy/models.go:739-768: output[index : index+32] is bounded by
\* the capacity of output and panics beyond it; the offset plus 32 must not
\* exceed len(output); the length word is the 32 bytes before offsetEnd; the
\* bit length tested at line 758 is that of offsetEnd + length
lengthPrefixPointsTo(index, output) ==
    IF index + 32 > Len(output.bytes) THEN Err("panic")
    ELSE LET bigOffsetEnd ==
                 Add(SetBytes(SubSeq(output.bytes, index + 1, index + 32)), <<32>>)
         IN IF Exceeds(bigOffsetEnd, output.len) THEN Err("offset")
            ELSE IF BitLen(bigOffsetEnd) > 63 THEN Err("offset64")
            ELSE LET offsetEnd == ByteValue(bigOffsetEnd)
                     lengthBig == SetBytes(SubSeq(output.bytes, offsetEnd - 31, offsetEnd))
                     totalSize == Add(bigOffsetEnd, lengthBig)
                 IN IF BitLen(totalSize) > 63 THEN Err("length64")
                    ELSE IF Exceeds(totalSize, output.len) THEN Err("insufficient")
                    ELSE Ok([start |-> offsetEnd, length |-> ByteValue(lengthBig)])

lengthPrefixPointsTo_call(p) ==
    /\ pc[p] = "lengthPrefixPointsTo"
    /\ Return(p, lengthPrefixPointsTo(arg[p].index, arg[p].output))
    /\ UNCHANGED <<netlog, loc, netFrame>>

\* the offset word at an index of an output buffer is resolved
UnpackCall(p) ==
    /\ calls < MaxUnpackCalls
    /\ \E i \in Indexes, o \in Outputs :
          Begin(p, "lengthPrefixPointsTo", "1", [NoArg EXCEPT !.index = i, !.output = o])

NextUnpack == \E p \in TxProcs : UnpackCall(p) \/ lengthPrefixPointsTo_call(p)

\* offset resolution applied to every buffer and index within the bounds
SpecUnpack == Init /\ [][NextUnpack]_vars

\* ---------------------------------- callers of the chain configuration
\* one goroutine resolves chain configurations and invalidates networks
CfgCall(p) ==
    /\ calls < MaxCfgCalls
    /\ \E o \in {"GetChainConfig", "clearCachedClients"}, n \in NetworkIDs : Begin(p, o, n, NoArg)

NextCfg ==
    \E p \in TxProcs :
        \/ CfgCall(p)
        \/ GetChainConfig(p)
        \/ clearCachedClients_lock(p)
        \/ clearCachedClients_close(p)
        \/ clearCachedClients_reset(p)

\* chain configurations of several network ids, one call at a time
SpecCfg == Init /\ [][NextCfg]_vars

\* -------------------------------------- callers of chain introspection
RpcURLs == {"", "url"}

\* the caller asks for the network status, a peer count, a protocol version,
\* the latest block number or a token balance, or resolves the low-level client
NetCall(p) ==
    /\ calls < MaxNetCalls
    /\ \E n \in PoolIDs :
        \/ \E u \in RpcURLs : Begin(p, "GetNetworkStatus", n, [NoArg EXCEPT !.rpcURL = u])
        \/ Begin(p, "GetPeerCount", n, NoArg)
        \/ Begin(p, "GetProtocolVersion", n, NoArg)
        \/ Begin(p, "GetLatestBlockNumber", n, NoArg)
        \/ \E a \in ContractABIs : Begin(p, "GetTokenBalance", n, [NoArg EXCEPT !.contractABI = a])
        \/ Begin(p, "ResolveJsonRpcClient", n, NoArg)

NetStep(p) ==
    \/ GetLatestBlockNumber_call(p)
    \/ GetChainID(p)
    \/ InvokeJsonRpcClient(p)
    \/ GetPeerCount_call(p)
    \/ GetPeerCount_invoke(p)
    \/ GetPeerCount_fallback(p)
    \/ GetProtocolVersion_call(p)
    \/ GetProtocolVersion_invoke(p)
    \/ GetProtocolVersion_fallback(p)
    \/ GetNetworkStatus_call(p)
    \/ GetNetworkStatus_dialed(p)
    \/ GetNetworkStatus_failed(p)
    \/ GetNetworkStatus_chainID(p)
    \/ GetNetworkStatus_peers(p)
    \/ GetNetworkStatus_version(p)
    \/ GetNetworkStatus_block(p)
    \/ GetNetworkStatus_recovered(p)
    \/ GetTokenBalance_call(p)
    \/ GetTokenBalance_dialed(p)
    \/ GetTokenBalance_callContract(p)
    \/ GetTokenBalance_symbol(p)

NextNet == \E p \in TxProcs : NetCall(p) \/ DialSteps(p) \/ NetStep(p)

\* chain introspection, one call at a time
SpecNet == Init /\ [][NextNet]_vars

\* ======================================================== properties
Done(p, o) == pc[p] = "done" /\ op[p] = o

\* C1: when two callers have each finished one DialJsonRpc for the same
\* network id and each found the cache empty, neither has panicked, and if
\* both got a client then one connection was dialed and one is cached.
C1_OneDialForConcurrentCallers ==
    (/\ calls = 2
     /\ \A p \in Procs : Done(p, "DialJsonRpc") /\ hit[p] = NilRpc
     /\ \A p, q \in Procs : networkID[p] = networkID[q])
    => /\ \A p \in Procs : ret[p].err # "panic"
       /\ (\A p \in Procs : ret[p].err = "nil")
            => \A n \in PoolIDs :
                  /\ dialed = 1
                  /\ Cardinality(Range(ethrpcClients[n])) = 1
                  /\ Cardinality(Range(ethclientRpcClients[n])) = 1

\* C2: the cache holds at most one low-level and at most one high-level
\* client entry for every network id.
C2_AtMostOneEntryPerNetwork ==
    \A n \in NetworkIDs : /\ Len(ethrpcClients[n]) <= 1
                          /\ Len(ethclientRpcClients[n]) <= 1

\* C3: a DialJsonRpc or ResolveJsonRpcClient call that found a client cached
\* at its lookup, with no invalidation of the network overlapping the call,
\* returns that same client with a nil error and has dialed nothing.
C3_CachedRecordReused ==
    \A p \in Procs :
        /\ (Done(p, "ResolveJsonRpcClient") /\ hit[p] # NilRpc /\ ~inval[p])
            => /\ ret[p] = Ok(hit[p])
               /\ "dial" \notin netlog[p]
        /\ (Done(p, "DialJsonRpc") /\ hit[p] # NilRpc /\ ~inval[p])
            => /\ ret[p] = Ok(NewClient(hit[p]))
               /\ "dial" \notin netlog[p]

\* C4: a failed liveness probe of DialJsonRpc is never answered before
\* clearCachedClients has run: the chain configuration of the network is
\* evicted, every client cached for it is closed, both of its lists are
\* emptied, and only then the probe error is returned, without a client.
C4_ProbeFailureInvalidates ==
    [][\A p \in Procs :
         LET n == networkID[p] IN
         /\ (pc[p] = "DialJsonRpc_probe" /\ pc'[p] \notin {"DialJsonRpc_probe", "clearCachedClients"})
            => ret'[p].err = "nil"
         /\ (pc[p] = "clearCachedClients" /\ pc'[p] # "clearCachedClients")
            => ~chainConfigs'[n] /\ mutex' = p
         /\ (pc[p] = "clearCachedClients_reset" /\ pc'[p] = "DialJsonRpc_failed")
            => /\ Range(ethrpcClients[n]) \subseteq closed'
               /\ {h.c : h \in Range(ethclientRpcClients[n])} \subseteq closed'
               /\ ethrpcClients'[n] = <<>>
               /\ ethclientRpcClients'[n] = <<>>
         /\ (pc[p] = "DialJsonRpc_failed" /\ pc'[p] # "DialJsonRpc_failed")
            => ret'[p] = Err("probe")
         /\ (pc[p] # "DialJsonRpc_failed" /\ pc'[p] = "DialJsonRpc_failed")
            => pc[p] = "clearCachedClients_reset"
      ]_vars

\* C4 witness: the probe of a cached client failed, the invalidation has
\* closed it and emptied the lists, and the error is about to be returned
C4_Witness ==
    \E p \in Procs : /\ pc[p] = "DialJsonRpc_failed"
                     /\ client[p].c \in closed
                     /\ ethrpcClients[networkID[p]] = <<>>
                     /\ ethclientRpcClients[networkID[p]] = <<>>
                     /\ ~chainConfigs[networkID[p]]

\* C5: a DialJsonRpc that begins after a probe failure was reported never
\* goes on with a connection that failed the probe: it dials afresh.
C5_FreshDialAfterProbeFailure ==
    \A p \in Procs :
        (op[p] = "DialJsonRpc" /\ pc[p] = "DialJsonRpc_probe") => client[p].c \notin avoid[p]

\* C6: outside an invalidation the cache holds no client that an
\* invalidation has closed.
C6_NoClosedClientCached ==
    mutex = NoProc =>
        \A n \in NetworkIDs :
            /\ Range(ethrpcClients[n]) \cap closed = {}
            /\ {h.c : h \in Range(ethclientRpcClients[n])} \cap closed = {}

\* C7: ResolveEthClient returning a nil error returns a non-nil client.
C7_ResolveEthClientReturnsClient ==
    \A p \in Procs :
        (Done(p, "ResolveEthClient") /\ ret[p].err = "nil") => ret[p].val # NilEth

\* the state of a transaction in Unsigned -> Signed -> Broadcast
TxState(t) == IF t.sent THEN "Broadcast" ELSE IF t.sig THEN "Signed" ELSE "Unsigned"

\* C8: a transaction is submitted with eth_sendRawTransaction only when it
\* carries a signature, and every change of a transaction's state is
\* Unsigned -> Signed or Signed -> Broadcast.
C8_TxMovesForward ==
    /\ [](\A i \in 1..Len(txs) : (txs[i].submitted \/ txs[i].sent) => txs[i].sig)
    /\ [][\A i \in 1..Len(txs) :
            \/ TxState(txs'[i]) = TxState(txs[i])
            \/ <<TxState(txs[i]), TxState(txs'[i])>> \in
                    {<<"Unsigned", "Signed">>, <<"Signed", "Broadcast">>}
         ]_vars

\* C9: SignTx returning the key-parse error has put no request on the network.
C9_KeyParsedBeforeNetwork ==
    \A p \in Procs : (Done(p, "SignTx") /\ ret[p].err = "key") => netlog[p] = {}

\* C10: once gas estimation has failed in a SignTx call, the call constructs
\* no transaction and ends with the estimation error, whatever the recipient.
C10_EstimateFailureFailsBuild ==
    \A p \in Procs :
        (op[p] = "SignTx" /\ loc[p].err = "estimate")
        => /\ pc[p] \in {"SignTx_build", "done"}
           /\ loc[p].tx = 0
           /\ (pc[p] = "done" => ret[p] = Err("estimate"))

\* C10 witness: a contract-creation SignTx has ended with the estimation error
C10_Witness ==
    \E p \in Procs : /\ Done(p, "SignTx") /\ arg[p].to = "nil"
                     /\ loc[p].err = "estimate" /\ ret[p] = Err("estimate")

\* C11: a transaction SignTx constructs carries the caller's gas limit, with
\* no eth_estimateGas request made by the call, when that limit is non-zero,
\* and the gas limit the node estimated when the caller's limit is zero.
C11_GasLimitOrEstimate ==
    \A p \in Procs :
        op[p] = "SignTx" =>
            /\ (arg[p].gasLimit # 0 => "eth_estimateGas" \notin netlog[p])
            /\ loc[p].tx # 0 =>
                  IF arg[p].gasLimit # 0
                  THEN txs[loc[p].tx].gasLimit = arg[p].gasLimit
                  ELSE /\ txs[loc[p].tx].gasLimit \in EstimatedGas
                       /\ "eth_estimateGas" \in netlog[p]

\* C11 witness: SignTx has returned one transaction with the caller's gas
\* limit and one with an estimated gas limit
C11_Witness ==
    \E i, j \in returned : /\ txs[i].gasLimit \in GasLimits \ {0}
                           /\ txs[j].gasLimit \in EstimatedGas

\* C12: the transaction SignTx constructs has the recipient the caller gave
\* (none: a contract creation), and once it is constructed the missing
\* recipient makes no later step of SignTx panic.
C12_NullRecipientIsCreation ==
    \A p \in Procs :
        (op[p] = "SignTx" /\ loc[p].tx # 0)
        => /\ txs[loc[p].tx].to = arg[p].to
           /\ (arg[p].to = "nil" => ret[p].err # "panic")

\* C13: a transaction SignTx has signed for a network with a numeric id is
\* signed under the chain id of that network.
C13_SignedUnderOwnChainID ==
    \A p \in Procs :
        (/\ Done(p, "SignTx") /\ ret[p].err = "nil"
         /\ ~ParseUint(networkID[p]).err)
        => txs[ret[p].val].chainID = ParseUint(networkID[p]).val

\* C14: GetNetworkStatus never ends with the error of a connectivity failure
\* (a dial failure, a failed liveness probe, a failed request after the dial).
C14_StatusNeverErrsOnConnectivity ==
    \A p \in Procs :
        Done(p, "GetNetworkStatus") => ret[p].err \notin {"dial", "probe", "rpc"}

\* C15: GetLatestBlockNumber ends with an error or with the number decoded
\* from the response, never with a panic.
C15_BlockNumberOrError ==
    \A p \in Procs :
        Done(p, "GetLatestBlockNumber")
        => /\ ret[p].err # "panic"
           /\ ret[p].err = "nil" => ret[p].val \in {HexValue(h.digits) : h \in BlockNumbers}

\* C16: GetTokenBalance ends with an error or with the balance decoded from
\* the result of the call: never with a panic, never with a nil balance and
\* a nil error.
C16_BalanceOrError ==
    \A p \in Procs :
        Done(p, "GetTokenBalance")
        => /\ ret[p].err # "panic"
           /\ ret[p].err = "nil" => ret[p].val # Absent

\* C17: GetPeerCount, with or without the parity_netPeers fallback, ends
\* with a peer count and never with a panic.
C17_PeerCountNeverPanics ==
    \A p \in Procs : Done(p, "GetPeerCount") => ret[p].err # "panic"

\* C18: a status GetNetworkStatus returns for a node it reached says
\* "synced", not syncing, no height, and carries the latest block's header,
\* number and timestamp when the node reported no sync progress; when the
\* node reported a progress record it says syncing, block = CurrentBlock,
\* height = HighestBlock, and its state is not "synced".
C18_SyncedOrSyncing ==
    \A p \in Procs :
        (/\ Done(p, "GetNetworkStatus") /\ ret[p].err = "nil"
         /\ ~ret[p].val.isNil /\ ret[p].val.State # "configuring")
        => LET st == ret[p].val
               sp == loc[p].syncProgress
           IN IF sp.syncing
              THEN /\ st.Syncing /\ st.State # "synced"
                   /\ st.Block = sp.CurrentBlock /\ st.Height = sp.HighestBlock
                   /\ ~st.header /\ st.LastBlockAt = Absent
              ELSE /\ ~st.Syncing /\ st.State = "synced"
                   /\ st.Height = Absent /\ st.header
                   /\ st.Block \in {HexValue(h.digits) : h \in BlockNumbers}
                   /\ st.LastBlockAt \in {HexValue(t.hex.digits) : t \in Timestamps} \ {0}

\* C18 witness: a status was returned for a node that reported a progress record
C18_Witness ==
    \E p \in Procs : /\ Done(p, "GetNetworkStatus") /\ ret[p].err = "nil"
                     /\ ~ret[p].val.isNil /\ loc[p].syncProgress.syncing
                     /\ ret[p].val.Syncing /\ ret[p].val.Height = 9

\* C19: EncodeABI ends with complete calldata (the selector and one word for
\* every declared input) and a nil error, or with an error and no calldata.
C19_CompleteCalldataOrError ==
    \A p \in Procs :
        Done(p, "EncodeABI")
        => IF ret[p].err = "nil"
           THEN /\ ret[p].val.selector
                /\ Len(ret[p].val.words) = Len(arg[p].inputs)
           ELSE ret[p].val = NilCalldata

C21_RoundTrip ==
    \A p \in Procs :
        Done(p, "RoundTrip")
        => /\ ret[p].err = "nil"
           /\ ret[p].val = Integer(GoType(arg[p].t), arg[p].v.neg, arg[p].v.mag)

\* C22: decrypting an exported record with the secret it was exported under
\* gives the key bytes that were exported; with another passphrase it fails
\* on the MAC.
C22_DecryptRecoversKey ==
    \A p \in Procs :
        Done(p, "DecryptKey")
        => IF arg[p].passphrase = arg[p].secret
           THEN ret[p].err = "nil" /\ ret[p].val = FromECDSA(arg[p].keyBytes)
           ELSE ret[p].err = "mac"

\* C22 witness: a record was decrypted with its own secret
C22_Witness ==
    \E p \in Procs : /\ Done(p, "DecryptKey")
                     /\ arg[p].passphrase = arg[p].secret
                     /\ ret[p].err = "nil"

\* C23: an exported record has an identifier, a salt and an IV that were
\* read from the random source.
C23_RecordHasRandomParts ==
    \A p \in Procs :
        (Done(p, "MarshalEncryptedKey") /\ ret[p].err = "nil")
        => /\ ret[p].val.ID \in UUIDs
           /\ DecodeString(ret[p].val.Crypto.KDFParams.salt) \in Salts
           /\ DecodeString(ret[p].val.Crypto.CipherParams.IV) \in IVs

\* the places where a goroutine reads or writes one of the three shared maps
CacheAccess ==
    {"DialJsonRpc", "DialJsonRpc_insert", "DialJsonRpc_cached",
     "ResolveJsonRpcClient", "ResolveJsonRpcClient_insert", "ResolveJsonRpcClient_cached",
     "ResolveEthClient", "ResolveEthClient_insert", "ResolveEthClient_cached",
     "GetChainConfig",
     "clearCachedClients", "clearCachedClients_close", "clearCachedClients_reset"}

\* C24: the accesses of the shared maps are serialized by the mutex: a
\* goroutine takes a step that reads or writes a map only when no other
\* goroutine holds the mutex.
C24_AccessesSerialized ==
    [][\A p \in Procs :
            (pc[p] \in CacheAccess /\ pc'[p] # pc[p]) => mutex \in {NoProc, p}
      ]_vars

\* C25: the mutex is held only inside the close-and-clear sequence of
\* clearCachedClients, never by a goroutine that is dialing or probing, and a
\* goroutine that has left the package does not hold it.
C25_MutexOnlyAroundMutation ==
    \A p \in Procs :
        /\ mutex = p => pc[p] \in {"clearCachedClients_close", "clearCachedClients_reset"}
        /\ pc[p] \in {"ResolveJsonRpcClient_dial", "DialJsonRpc_probe", "idle", "done"}
              => mutex # p

\* C25 witness: one goroutine is dialing while the other holds the mutex in
\* the invalidation that follows its failed probe
C25_Witness ==
    \E p, q \in Procs : /\ mutex = p /\ pc[p] = "clearCachedClients_reset"
                        /\ stk[p] = <<"DialJsonRpc_failed">>
                        /\ pc[q] = "ResolveJsonRpcClient_dial"

\* C26: when GetChainConfig has run for a network id, chainConfigs holds an
\* entry for that id.
C26_ConfigCachedOnceResolved ==
    [][\A p \in Procs :
            (pc[p] = "GetChainConfig" /\ pc'[p] # pc[p]) => chainConfigs'[networkID[p]]
      ]_vars

\* the chain id of the configuration GetChainConfig returns for n when no
\* call was made for another network id
ChainIDAlone(n) == IF ParseUint(n).err THEN ParseUint(n).val ELSE 1

\* C28: the chain id of the configuration GetChainConfig has returned for a
\* network id is the one it has when no call was made for another id.
C28_ConfigsIndependent ==
    \A p \in Procs :
        Done(p, "GetChainConfig") => mainnetChainID = ChainIDAlone(networkID[p])

\* C29: GetNetworkStatus ends with a status or with an error, never with
\* neither.
C29_StatusOrError ==
    \A p \in Procs :
        (Done(p, "GetNetworkStatus") /\ ret[p].err = "nil") => ~ret[p].val.isNil

\* C30: BroadcastSignedTx ends with a nil error only when the transaction it
\* was given was submitted with eth_sendRawTransaction and accepted.
C30_SuccessMeansSubmitted ==
    \A p \in Procs :
        (Done(p, "BroadcastSignedTx") /\ ret[p].err = "nil")
        => /\ arg[p].signedTx # 0
           /\ "eth_sendRawTransaction" \in netlog[p]
           /\ txs[arg[p].signedTx].sent

\* C27: lengthPrefixPointsTo ends with an error, or with a start right after
\* the length word the offset points to and a length that stays inside the
\* length of the buffer; it never panics.
C27_BoundsAreErrors ==
    \A p \in Procs :
        Done(p, "lengthPrefixPointsTo")
        => /\ ret[p].err # "panic"
           /\ ret[p].err = "nil"
                => /\ ret[p].val.start + ret[p].val.length <= arg[p].output.len
                   /\ ret[p].val.start =
                        ByteValue(Strip(SubSeq(arg[p].output.bytes,
                                               arg[p].index + 1, arg[p].index + 32))) + 32

====
